---- MODULE Spec2Model ----
(***************************************************************************)
(* Verification model of the texture container codecs of `bite`            *)
(* (src/bite/textures/{base,dds,pvr,vtf}.py).                              *)
(*                                                                         *)
(* A run takes one input file, parses it, and then either re-serializes    *)
(* the texture and parses the output again, or (DDS) splits the texture    *)
(* into per-frame children.                                                *)
(*                                                                         *)
(* The block decoders (decode/s3tc.py), the twiddle table                  *)
(* (decode/twiddle.py), MipIndex equality and the pixel formats            *)
(* (pixels/base.py) are functions of their arguments: SpecFn draws one     *)
(* call, held in `call`, and runs it, leaving the result in `ret`.         *)
(*                                                                         *)
(* Bytes are integers 0..255, byte strings are sequences of bytes.         *)
(* Optional values (Python None) are sequences of length 0 or 1:           *)
(*   None == <<>>,  Some(v) == <<v>>.                                      *)
(* Fixed-layout header blocks are held as records of their fields; the     *)
(* pixel payload that follows the header is held byte for byte.            *)
(***************************************************************************)
EXTENDS Integers, Sequences, FiniteSets, TLC

VARIABLES
    file,         \* the input byte string x (header fields + payload bytes)
    enumsStrict,  \* does the struct library reject an enum value it cannot name
    tex,          \* the texture object parse produced (or the exception raised)
    out,          \* the bytes as_bytes produced (or the exception raised)
    tex2,         \* the texture parsed from `out`
    kids,         \* the list split() returned, or the exception it raised
    heap,         \* header objects, by reference: textures hold an index
    pc,           \* position in the run
    call,         \* the function called and its arguments (decoders, pixels)
    ret           \* what the call returned, or the exception it raised

vars == <<file, enumsStrict, tex, out, tex2, kids, heap, pc, call, ret>>

(***************************************************************************)
(* Bounds of the model                                                     *)
(***************************************************************************)
MaxMips == 2      \* num_mipmaps ranges over 0..MaxMips
MaxSide == 2      \* width ranges over 1..MaxSide, height is MaxSide
MaxShort == 1     \* bytes missing at the end of a truncated payload

(***************************************************************************)
(* Generic helpers                                                         *)
(***************************************************************************)
None == <<>>
Some(v) == <<v>>

Min(a, b) == IF a < b THEN a ELSE b
Max(a, b) == IF a > b THEN a ELSE b

RECURSIVE Pow2(_)
Pow2(n) == IF n = 0 THEN 1 ELSE 2 * Pow2(n - 1)

\* Python's  a >> n  on a non-negative integer
Shr(a, n) == a \div Pow2(n)

\* math.ceil(a * num / den) for the exactly representable fractions used here
CeilFrac(a, num, den) == (a * num + den - 1) \div den

RECURSIVE SumSeq(_)
SumSeq(s) == IF s = <<>> THEN 0 ELSE Head(s) + SumSeq(Tail(s))

RECURSIVE Concat(_)
Concat(ss) == IF ss = <<>> THEN <<>> ELSE Head(ss) \o Concat(Tail(ss))

Range(s) == {s[i] : i \in DOMAIN s}

Raise(e) == [kind |-> "error", err |-> e]
IsError(r) == r.kind = "error"

\* the i-th byte (1-based) of the payload pattern with the given seed
PayloadByte(seed, i) == (seed + i) % 256
Payload(seed, n) == [i \in 1..n |-> PayloadByte(seed, i)]

\* io.BytesIO.read(n) at position pos: at most n bytes, fewer at the end of
\* the stream, never an exception
stream_read(stream, pos, n) ==
    SubSeq(stream, Min(pos, Len(stream)) + 1, Min(pos + n, Len(stream)))

\* consecutive stream.read(size) calls, one per element of sizes
RECURSIVE read_all(_, _, _)
read_all(stream, pos, sizes) ==
    IF sizes = <<>> THEN <<>>
    ELSE LET chunk == stream_read(stream, pos, Head(sizes))
         IN  <<chunk>> \o read_all(stream, pos + Len(chunk), Tail(sizes))

\* a dict built from (key, value) pairs in iteration order; a later pair
\* replaces an earlier one with the same key
DictOf(keys, values) ==
    [k \in Range(keys) |->
        values[CHOOSE i \in DOMAIN keys :
                 /\ keys[i] = k
                 /\ \A j \in DOMAIN keys : j > i => keys[j] # k]]

EmptyDict == [k \in {} |-> <<>>]

(***************************************************************************)
(* textures/base.py                                                        *)
(***************************************************************************)
\* enum Face: the six members, in definition (ordinal) order
Face(n) == <<"Face", n>>
Faces == [i \in 1..6 |-> Face(i - 1)]

\* MipIndex(mip, frame=0, face=None); face is None or a Face member
MipIndex(mip, frame, face) == [mip |-> mip, frame |-> frame, face |-> face]

\* the str key Vtf.parse stores the low-res image under
ThumbnailKey == [str |-> "thumbnail"]

IsMipIndex(k) == DOMAIN k = {"mip", "frame", "face"}

\* the legal key space of a texture (Texture class comment, base.py:62-63)
KeySpace(num_mipmaps, num_frames, cubemap) ==
    {MipIndex(m, f, c) :
        m \in 0..(num_mipmaps - 1),
        f \in 0..(num_frames - 1),
        c \in (IF cubemap THEN Range(Faces) ELSE {None})}

(***************************************************************************)
(* textures/dds.py                                                         *)
(***************************************************************************)
\* enum DXGI, the members the model draws formats from; "0x74" stands for a
\* format value that names no member
DXGI == {"UNKNOWN", "R_8_UNORM", "R_1_UNORM", "BC1_UNORM", "BC2_UNORM",
         "BC4_UNORM", "BC5_UNORM"}
UnnamedDxgi == "0x74"

dxgi_from_magic ==
    [m \in {"BC4U", "BC5U", "DXT1"} |->
        CASE m = "BC4U" -> "BC4_UNORM"
          [] m = "BC5U" -> "BC5_UNORM"
          [] m = "DXT1" -> "BC1_UNORM"]

\* bytes per pixel as <<numerator, denominator>>
dds_bytes_per_pixel ==
    [f \in {"R_8_UNORM", "R_1_UNORM", "BC1_UNORM", "BC5_UNORM"} |->
        CASE f = "R_8_UNORM" -> <<1, 1>>
          [] f = "R_1_UNORM" -> <<1, 8>>
          [] f = "BC1_UNORM" -> <<1, 2>>
          [] f = "BC5_UNORM" -> <<1, 1>>]

dds_min_block_size ==
    [f \in {"R_1_UNORM", "BC1_UNORM", "BC5_UNORM"} |->
        CASE f = "R_1_UNORM" -> 1
          [] f = "BC1_UNORM" -> 8
          [] f = "BC5_UNORM" -> 16]

\* MiscFlag.CUBEMAP in misc_flag
CUBEMAP == 4
HasCubemapFlag(misc_flag) == (misc_flag \div CUBEMAP) % 2 = 1

\* variant of Dds.is_cubemap: the dimension alone decides, the CUBEMAP bit is
\* never read
Dds_is_cubemap_dimension_only(header_2) == header_2.dimension = "TEXTURE_2D"

\* Dds.is_cubemap, a property computed from header_2 on every access
Dds_is_cubemap(header_2) ==
    IF header_2.array_size % 6 = 0
    THEN header_2.dimension = "TEXTURE_2D"
    ELSE HasCubemapFlag(header_2.misc_flag)

\* mip_sizes of Dds.parse
Dds_mip_sizes(size, num_mipmaps, format) ==
    LET bpp == dds_bytes_per_pixel[format]
        mbs == IF format \in DOMAIN dds_min_block_size
               THEN dds_min_block_size[format] ELSE 0
    IN  [i \in 1..num_mipmaps |->
            Max(CeilFrac(Shr(size[1], i - 1) * Shr(size[2], i - 1),
                         bpp[1], bpp[2]), mbs)]

\* variant of the keys of Dds.parse: the flat comprehension keys every frame
\* as frame 0
Dds_parse_keys_frame0(num_frames, num_mipmaps, cubemap) ==
    IF cubemap
    THEN [i \in 1..(num_frames * 6 * num_mipmaps) |->
            MipIndex((i - 1) % num_mipmaps,
                     (i - 1) \div (6 * num_mipmaps),
                     Faces[(((i - 1) \div num_mipmaps) % 6) + 1])]
    ELSE [i \in 1..(num_frames * num_mipmaps) |->
            MipIndex((i - 1) % num_mipmaps, 0, None)]

\* the keys of the two dict comprehensions of Dds.parse, in iteration order:
\* frame (outer), face, mip (inner)
Dds_parse_keys(num_frames, num_mipmaps, cubemap) ==
    IF cubemap
    THEN [i \in 1..(num_frames * 6 * num_mipmaps) |->
            MipIndex((i - 1) % num_mipmaps,
                     (i - 1) \div (6 * num_mipmaps),
                     Faces[(((i - 1) \div num_mipmaps) % 6) + 1])]
    ELSE [i \in 1..(num_frames * num_mipmaps) |->
            MipIndex((i - 1) % num_mipmaps, (i - 1) \div num_mipmaps, None)]

\* the DX10Header object parse builds: read from the stream, or the dummy
Dds_header_2(f) ==
    IF f.magic = "DX10"
    THEN [magic |-> "DX10", format |-> f.format, dimension |-> f.dimension,
          misc_flag |-> f.misc_flag, array_size |-> f.array_size]
    ELSE [magic |-> "", format |-> dxgi_from_magic[f.magic],
          dimension |-> "TEXTURE_2D", misc_flag |-> 0, array_size |-> 1]

\* Dds.__init__ after Texture.__init__: the fields of a fresh object
Dds_new ==
    [kind |-> "Dds", ref |-> 0, filename |-> <<>>, format |-> "UNKNOWN",
     max_size |-> <<0, 0>>, num_mipmaps |-> 0, num_frames |-> 0,
     mipmaps |-> EmptyDict, raw_data |-> None]

\* the except-KeyError branch of Dds.parse: all unread bytes go to raw_data
Dds_fallback(t0, cell, rest) ==
    [kind |-> "ok", cell |-> cell, t |-> [t0 EXCEPT !.raw_data = Some(rest)]]

\* Dds.parse on the bytes f.  The result is the exception raised, or the
\* texture with the header objects it created (the caller stores `cell` in
\* the heap and the reference in the texture).
Dds_parse(f, strict) ==
    IF f.hdr # "ok" THEN Raise("AssertionError")
    ELSE IF f.magic = "DX10" /\ f.format \notin DXGI /\ strict
    THEN Raise("ValueError")
    ELSE IF f.magic # "DX10" /\ f.magic \notin DOMAIN dxgi_from_magic
    THEN Raise("KeyError")
    ELSE
    LET header == [size |-> f.size, num_mipmaps |-> f.num_mipmaps]
        header_2 == Dds_header_2(f)
        cube == Dds_is_cubemap(header_2)
        num_frames == IF cube THEN header_2.array_size \div 6
                      ELSE header_2.array_size
        t0 == [Dds_new EXCEPT !.filename = f.filename,
                              !.format = header_2.format,
                              !.max_size = header.size,
                              !.num_mipmaps = header.num_mipmaps,
                              !.num_frames = num_frames]
        cell == [header |-> header, header_2 |-> header_2]
    IN  IF cube /\ header_2.array_size % 6 # 0 THEN Raise("AssertionError")
        ELSE IF t0.format \notin DOMAIN dds_bytes_per_pixel
        THEN Dds_fallback(t0, cell, f.payload)
        ELSE
        LET mip_sizes == Dds_mip_sizes(t0.max_size, t0.num_mipmaps, t0.format)
            keys == Dds_parse_keys(num_frames, t0.num_mipmaps, cube)
            sizes == [i \in DOMAIN keys |-> mip_sizes[keys[i].mip + 1]]
        IN  [kind |-> "ok", cell |-> cell,
             t |-> [t0 EXCEPT
                      !.mipmaps = DictOf(keys, read_all(f.payload, 0, sizes))]]

\* the DX10 fields of a file that has no DX10 block
NoDX10 == [format |-> "UNKNOWN", dimension |-> "TEXTURE_2D",
           misc_flag |-> 0, array_size |-> 1]

\* the order of the mip byte strings Dds.as_bytes joins for a cubemap:
\* frame, face, mip descending
Dds_as_bytes_keys(num_frames, num_mipmaps) ==
    [i \in 1..(num_frames * 6 * num_mipmaps) |->
        MipIndex(num_mipmaps - 1 - ((i - 1) % num_mipmaps),
                 (i - 1) \div (6 * num_mipmaps),
                 Faces[(((i - 1) \div num_mipmaps) % 6) + 1])]

\* Dds.as_bytes of texture t, whose header objects are cell
Dds_as_bytes(t, cell) ==
    LET h2 == cell.header_2
        magics == {m \in DOMAIN dxgi_from_magic : dxgi_from_magic[m] = t.format}
        head == IF h2.magic = "DX10"
                THEN [codec |-> "dds", hdr |-> "ok", filename |-> t.filename,
                      magic |-> "DX10", size |-> cell.header.size,
                      num_mipmaps |-> cell.header.num_mipmaps,
                      format |-> h2.format, dimension |-> h2.dimension,
                      misc_flag |-> h2.misc_flag, array_size |-> h2.array_size,
                      payload |-> <<>>]
                ELSE [codec |-> "dds", hdr |-> "ok", filename |-> t.filename,
                      magic |-> CHOOSE m \in magics : TRUE,
                      size |-> cell.header.size,
                      num_mipmaps |-> cell.header.num_mipmaps,
                      format |-> NoDX10.format, dimension |-> NoDX10.dimension,
                      misc_flag |-> NoDX10.misc_flag,
                      array_size |-> NoDX10.array_size, payload |-> <<>>]
        keys == Dds_as_bytes_keys(t.num_frames, t.num_mipmaps)
    IN  IF h2.magic # "DX10" /\ magics = {} THEN Raise("KeyError")
        ELSE IF t.raw_data # None
        THEN [kind |-> "ok", bytes |-> [head EXCEPT !.payload = t.raw_data[1]]]
        ELSE IF Dds_is_cubemap(h2)
        THEN IF \E i \in DOMAIN keys : keys[i] \notin DOMAIN t.mipmaps
             THEN Raise("KeyError")
             ELSE [kind |-> "ok",
                   bytes |-> [head EXCEPT !.payload =
                       Concat([i \in DOMAIN keys |-> t.mipmaps[keys[i]]])]]
        \* range(self.array_size): Dds defines no attribute array_size
        ELSE Raise("AttributeError")

\* os.path.splitext(filename)[0] and f"{base_filename}.{i}.dds", on a
\* filename held as its dot-separated parts
splitext0(filename) == SubSeq(filename, 1, Len(filename) - 1)
child_filename(filename, i) == splitext0(filename) \o <<ToString(i), "dds">>

\* the (mip, face) -> parent index mapping of one pass of the loop of split
Dds_split_indices(num_mipmaps, cubemap, i) ==
    IF cubemap
    THEN {<<MipIndex(mip, 0, Face(face)), MipIndex(mip, i, Face(face))>> :
            mip \in 0..(num_mipmaps - 1), face \in 0..5}
    ELSE {<<MipIndex(mip, 0, None), MipIndex(mip, i, None)>> :
            mip \in 0..(num_mipmaps - 1)}

\* the call Dds(*args): __init__(self, filepath, archive=None, code_page=None)
\* has no default for filepath, so a call without arguments raises TypeError
Dds_init(args) ==
    IF Len(args) = 0 THEN Raise("TypeError")
    ELSE [kind |-> "ok", t |-> Dds_new]

\* Dds.split of texture t whose header objects are cell.  Every pass of the
\* loop starts with child = Dds(); past it, child.header and child.header_2
\* are the parent's objects (the child keeps t.ref), so the write to
\* child.header_2.array_size lands in cell.
Dds_split(t, cell) ==
    LET cubemap == Dds_is_cubemap(cell.header_2)
        made == Dds_init(<<>>)
        forced == IF cubemap THEN 6 ELSE 1
        cell2 == [cell EXCEPT !.header_2.array_size = forced]
        child(i) ==
            LET indices == Dds_split_indices(t.num_mipmaps, cubemap, i)
            IN  [made.t EXCEPT
                   !.ref = t.ref,
                   !.filename = child_filename(t.filename, i),
                   !.max_size = t.max_size,
                   !.num_frames = 1,
                   !.mipmaps = [k \in {p[1] : p \in indices} |->
                       t.mipmaps[(CHOOSE p \in indices : p[1] = k)[2]]]]
        missing == \E i \in 0..(t.num_frames - 1) :
                     \E p \in Dds_split_indices(t.num_mipmaps, cubemap, i) :
                        p[2] \notin DOMAIN t.mipmaps
    IN  IF t.num_frames = 0
        THEN [kind |-> "ok", cell |-> cell, out |-> <<>>]
        ELSE IF IsError(made)
        THEN [kind |-> "error", err |-> made.err, cell |-> cell]
        ELSE IF missing
        THEN [kind |-> "error", err |-> "KeyError", cell |-> cell2]
        ELSE [kind |-> "ok", cell |-> cell2,
              out |-> [i \in 1..t.num_frames |-> child(i - 1)]]

(***************************************************************************)
(* textures/pvr.py                                                         *)
(***************************************************************************)
\* enum PixelMode and enum TextureMode, members by value
PixelMode == 0..7
TextureMode == (1..13) \cup {16, 17, 18}
\* the TextureMode members whose name ends in _MIPS
MipsTextureModes == {2, 4, 6, 8, 10, 12, 17, 18}

\* PixelMode.RESERVED (7) has no entry
pvr_bytes_per_pixel ==
    [m \in 0..6 |-> CASE m \in 0..4 -> <<2, 1>>
                      [] m = 5 -> <<1, 2>>
                      [] m = 6 -> <<1, 1>>]

\* Pvr.__init__ after Texture.__init__
Pvr_new ==
    [kind |-> "Pvr", filename |-> <<>>, gbix |-> None, data_size |-> 8,
     format |-> [pixel |-> 0, texture |-> 1], max_size |-> <<0, 0>>,
     num_mipmaps |-> 1, num_frames |-> 1,
     mipmaps |-> EmptyDict, raw_data |-> None]

\* mip_sizes of Pvr.parse
Pvr_mip_sizes(size, num_mipmaps, pixel) ==
    LET bpp == pvr_bytes_per_pixel[pixel]
    IN  [i \in 1..num_mipmaps |->
            CeilFrac(Shr(size[1], i - 1) * Shr(size[2], i - 1), bpp[1], bpp[2])]

\* variant of the validation gate: the 8 bytes of the size field are not
\* counted
Pvr_size_ok_no_header(mip_sizes, data_size) == SumSeq(mip_sizes) = data_size

\* the validation gate: sum(mip_sizes) + 8 != self.data_size is its failure
Pvr_size_ok(mip_sizes, data_size) == SumSeq(mip_sizes) + 8 = data_size

\* the two fallback branches of Pvr.parse: raw_data = self.stream.read(); return
Pvr_fallback(t0, rest) ==
    [kind |-> "ok", t |-> [t0 EXCEPT !.raw_data = Some(rest)]]

\* Pvr.parse on the bytes f
Pvr_parse(f) ==
    IF f.hdr # "ok" THEN Raise("AssertionError")
    ELSE IF f.pixel_mode \notin PixelMode \/ f.texture_mode \notin TextureMode
    THEN Raise("ValueError")
    ELSE
    LET t0 == [Pvr_new EXCEPT
                 !.filename = f.filename,
                 !.gbix = f.gbix,
                 !.data_size = f.data_size,
                 !.format = [pixel |-> f.pixel_mode, texture |-> f.texture_mode],
                 !.max_size = f.size]
    \* the raise for texture modes ending in _MIPS is a comment: nothing here
    IN  IF t0.format.pixel \notin DOMAIN pvr_bytes_per_pixel
        THEN Pvr_fallback(t0, f.payload)
        ELSE
        LET mip_sizes == Pvr_mip_sizes(t0.max_size, t0.num_mipmaps,
                                       t0.format.pixel)
            keys == [i \in 1..t0.num_mipmaps |-> MipIndex(i - 1, 0, None)]
        IN  IF ~Pvr_size_ok(mip_sizes, t0.data_size)
            THEN Pvr_fallback(t0, f.payload)
            ELSE [kind |-> "ok",
                  t |-> [t0 EXCEPT !.mipmaps =
                           DictOf(keys, read_all(f.payload, 0, mip_sizes))]]

\* sum(len(mipmap) for mipmap in self.mipmaps.values())
RECURSIVE SumLens(_)
SumLens(d) ==
    IF DOMAIN d = {} THEN 0
    ELSE LET k == CHOOSE k \in DOMAIN d : TRUE
         IN  Len(d[k]) + SumLens([j \in DOMAIN d \ {k} |-> d[j]])

\* variant of data_size in Pvr.as_bytes: the 8 header bytes are not added
Pvr_data_size_payload_only(t) ==
    IF t.raw_data # None THEN Len(t.raw_data[1]) ELSE SumLens(t.mipmaps)

\* data_size as Pvr.as_bytes computes it
Pvr_data_size(t) ==
    8 + (IF t.raw_data # None THEN Len(t.raw_data[1]) ELSE SumLens(t.mipmaps))

\* Pvr.as_bytes of texture t
Pvr_as_bytes(t) ==
    LET data_size == Pvr_data_size(t)
        keys == [i \in 1..t.num_mipmaps |-> MipIndex(i - 1, 0, None)]
        head == [codec |-> "pvr", hdr |-> "ok", filename |-> t.filename,
                 gbix |-> t.gbix, data_size |-> data_size,
                 pixel_mode |-> t.format.pixel,
                 texture_mode |-> t.format.texture,
                 size |-> t.max_size, payload |-> <<>>]
    IN  IF t.raw_data # None
        THEN [kind |-> "ok", bytes |-> [head EXCEPT !.payload = t.raw_data[1]]]
        ELSE IF \E i \in DOMAIN keys : keys[i] \notin DOMAIN t.mipmaps
        THEN Raise("KeyError")
        ELSE [kind |-> "ok",
              bytes |-> [head EXCEPT !.payload =
                  Concat([i \in DOMAIN keys |-> t.mipmaps[keys[i]]])]]

(***************************************************************************)
(* textures/vtf.py                                                         *)
(***************************************************************************)
\* enum Format, the members the model draws formats from; "0x1B" stands for
\* a value that names no member (27..65, or 0xFFFFFFFF read as unsigned)
VtfFormat == {"NONE", "RGBA_8888", "RGB_888", "I8", "DXT1", "DXT5"}
UnnamedVtfFormat == "0x1B"

\* the table as written in the source, as <<numerator, denominator>>
vtf_bytes_per_pixel ==
    [f \in {"RGBA_8888", "RGB_888", "I8", "DXT1", "DXT5"} |->
        CASE f = "RGBA_8888" -> <<32, 1>>
          [] f = "RGB_888" -> <<24, 1>>
          [] f = "I8" -> <<8, 1>>
          [] f = "DXT1" -> <<1, 2>>
          [] f = "DXT5" -> <<1, 1>>]

dxt_formats == {"DXT1", "DXT3", "DXT5", "DXT1_ONE_BIT_ALPHA", "BC6H_UF16"}

\* max(math.ceil(width / 4) * 4, 4)
RoundTile(n) == Max(((n + 3) \div 4) * 4, 4)

\* mip_data_size(size, level, format_), for a format of the table
mip_data_size(size, level, format) ==
    LET w0 == Shr(size[1], level)
        h0 == Shr(size[2], level)
        width == IF format \in dxt_formats THEN RoundTile(w0) ELSE w0
        height == IF format \in dxt_formats THEN RoundTile(h0) ELSE h0
        bpp == vtf_bytes_per_pixel[format]
    IN  CeilFrac(width * height, bpp[1], bpp[2])

\* variant of the header end: mipmap_depth is read by every version
Vtf_header_end_depth_always(minor, num_resources) ==
    IF minor >= 3 THEN 80 + 8 * num_resources ELSE 65

\* the stream position after the version-gated header fields
Vtf_header_end(minor, num_resources) ==
    IF minor >= 3 THEN 80 + 8 * num_resources
    ELSE IF minor = 2 THEN 65
    ELSE IF minor = 1 THEN 64
    ELSE 63

\* self.resources: a dict by tag name for v7.3+, the empty list before
Vtf_resources(minor, resources) ==
    IF minor >= 3
    THEN DictOf([i \in DOMAIN resources |-> resources[i].tag],
                [i \in DOMAIN resources |->
                    [flags |-> resources[i].flags,
                     offset |-> resources[i].offset]])
    ELSE EmptyDict

\* the keys of the two dict comprehensions of Vtf.parse, in iteration order:
\* mip descending (outer), frame, face (inner)
Vtf_parse_keys(num_frames, num_mipmaps, cubemap) ==
    IF cubemap
    THEN [i \in 1..(num_mipmaps * num_frames * 6) |->
            MipIndex(num_mipmaps - 1 - ((i - 1) \div (num_frames * 6)),
                     ((i - 1) \div 6) % num_frames,
                     Faces[((i - 1) % 6) + 1])]
    ELSE [i \in 1..(num_mipmaps * num_frames) |->
            MipIndex(num_mipmaps - 1 - ((i - 1) \div num_frames),
                     (i - 1) % num_frames, None)]

\* struct.pack("I", n): the four bytes of n, low byte first
pack_I(n) ==
    << n % 256, (n \div 256) % 256, (n \div 65536) % 256, n \div 16777216 >>

\* CMA.from_vtf_stream: the floats of the resource, each held as its four
\* bytes; `raw` is what the stream holds from resource.offset on
CMA_from_vtf_stream(resource, num_frames, raw) ==
    IF resource.flags = 2
    THEN [kind |-> "ok", data |-> << pack_I(resource.offset) >>]
    ELSE IF Len(raw) < 4 + 4 * num_frames THEN Raise("AssertionError")
    ELSE IF SubSeq(raw, 1, 4) # pack_I(num_frames * 4)
    THEN Raise("AssertionError")
    ELSE [kind |-> "ok",
          data |-> [i \in 1..num_frames |-> SubSeq(raw, 4 * i + 1, 4 * i + 4)]]

\* CMA.as_bytes
CMA_as_bytes(data) ==
    IF Len(data) = 1 THEN <<>>
    ELSE pack_I(Len(data) * 4) \o Concat(data)

\* Vtf.__init__ after Texture.__init__
Vtf_new ==
    [kind |-> "Vtf", filename |-> <<>>, header |-> None, resources |-> EmptyDict,
     cma |-> None, max_size |-> <<0, 0>>, num_mipmaps |-> 0, num_frames |-> 0,
     thumbnail_format |-> None, thumbnail_size |-> None, mipmap_depth |-> None,
     mipmaps |-> EmptyDict, raw_data |-> None]

\* Vtf.parse on the bytes f; stream positions count from the start of the
\* file, the payload starts at the end of the header
Vtf_parse(f, strict) ==
    IF f.hdr # "ok" THEN Raise("AssertionError")
    ELSE IF f.major # 7 \/ f.minor > 5 THEN Raise("NotImplementedError")
    ELSE IF f.format \notin VtfFormat /\ strict THEN Raise("ValueError")
    ELSE IF f.thumbnail_format \notin VtfFormat THEN Raise("ValueError")
    ELSE
    LET header == [version |-> <<f.major, f.minor>>,
                   header_size |-> f.header_size, size |-> f.size,
                   envmap |-> f.envmap, num_frames |-> f.num_frames,
                   first_frame |-> f.first_frame, format |-> f.format]
        resources == Vtf_resources(f.minor, f.resources)
        hend == Vtf_header_end(f.minor, Len(f.resources))
        tnew == [Vtf_new EXCEPT
                 !.filename = f.filename,
                 !.header = Some(header),
                 !.max_size = header.size,
                 !.num_frames = header.num_frames,
                 !.num_mipmaps = f.num_mipmaps,
                 !.thumbnail_format = Some(f.thumbnail_format),
                 !.thumbnail_size = Some(f.thumbnail_size),
                 !.mipmap_depth = IF f.minor >= 2 THEN Some(f.mipmap_depth)
                                  ELSE None,
                 !.resources = resources]
        \* stream position -> index into the payload
        rest(pos) == SubSeq(f.payload, Min(Max(pos - hend, 0), Len(f.payload)) + 1,
                            Len(f.payload))
        has_cma == "Cubemap Multiply Ambient" \in DOMAIN resources
        cma == CMA_from_vtf_stream(resources["Cubemap Multiply Ambient"],
                   header.num_frames,
                   rest(resources["Cubemap Multiply Ambient"].offset))
        t0 == [tnew EXCEPT !.cma = IF has_cma /\ ~IsError(cma)
                                     THEN Some([data |-> cma.data]) ELSE None]
        pos1 == IF "Thumbnail" \in DOMAIN resources
                THEN resources["Thumbnail"].offset ELSE hend
        has_thumb == f.thumbnail_format \in DOMAIN vtf_bytes_per_pixel
        thumb == stream_read(rest(pos1), 0,
                     mip_data_size(f.thumbnail_size, 0, f.thumbnail_format))
        t1 == IF has_thumb
              THEN [t0 EXCEPT !.mipmaps = DictOf(<<ThumbnailKey>>, <<thumb>>)]
              ELSE t0
        pos2 == IF has_thumb THEN pos1 + Len(thumb) ELSE pos1
        pos3 == IF "Image Data" \in DOMAIN resources
                THEN resources["Image Data"].offset ELSE pos2
    IN  IF \E i \in DOMAIN f.resources :
              f.resources[i].tag = "Cyclic Redundancy Check"
              /\ f.resources[i].flags # 2 /\ f.minor >= 3
        THEN Raise("AssertionError")
        ELSE IF hend # header.header_size THEN Raise("AssertionError")
        ELSE IF has_cma /\ IsError(cma) THEN cma
        ELSE IF header.first_frame # 0 THEN Raise("AssertionError")
        ELSE IF f.thumbnail_format = "NONE" /\ f.thumbnail_size # <<0, 0>>
        THEN Raise("AssertionError")
        ELSE IF has_thumb /\ f.thumbnail_size = <<0, 0>>
        THEN Raise("AssertionError")
        ELSE IF f.thumbnail_format # "NONE" /\ ~has_thumb
        THEN [kind |-> "ok", t |-> [t0 EXCEPT !.raw_data = Some(rest(pos1))]]
        ELSE IF header.format \notin DOMAIN vtf_bytes_per_pixel
        THEN [kind |-> "ok", t |-> [t1 EXCEPT !.raw_data = Some(rest(pos3))]]
        ELSE
        LET keys == Vtf_parse_keys(t1.num_frames, t1.num_mipmaps, header.envmap)
            sizes == [i \in DOMAIN keys |->
                        mip_data_size(t1.max_size, keys[i].mip, header.format)]
            chunks == read_all(rest(pos3), 0, sizes)
        IN  [kind |-> "ok",
             t |-> [t1 EXCEPT !.mipmaps =
                      [k \in DOMAIN t1.mipmaps \cup Range(keys) |->
                          IF k \in Range(keys) THEN DictOf(keys, chunks)[k]
                          ELSE t1.mipmaps[k]]]]

\* the order of the mip byte strings Vtf.as_bytes joins: mip ascending, frame,
\* face; the face of each key is the integer of range(6)
Vtf_as_bytes_keys(num_frames, num_mipmaps) ==
    [i \in 1..(num_mipmaps * num_frames * 6) |->
        MipIndex((i - 1) \div (num_frames * 6),
                 ((i - 1) \div 6) % num_frames,
                 (i - 1) % 6)]

\* Vtf.as_bytes of texture t.  The first statement stores the new
\* header_size in self.header, so the result carries the object `t` as the
\* call leaves it, with the bytes returned or the exception raised.
Vtf_as_bytes(t) ==
    LET tags == DOMAIN t.resources
        has_cma == "Cubemap Multiply Ambient" \in tags
        header_size == 80 + 8 * Cardinality(tags)
        t1 == [t EXCEPT !.header = Some([t.header[1] EXCEPT
                                           !.header_size = header_size])]
        fail(e) == [kind |-> "error", err |-> e, t |-> t1]
        keys == Vtf_as_bytes_keys(t.num_frames, t.num_mipmaps)
        head == [codec |-> "vtf", hdr |-> "ok", filename |-> t.filename,
                 major |-> t.header[1].version[1], minor |-> t.header[1].version[2],
                 header_size |-> header_size, size |-> t.header[1].size,
                 envmap |-> t.header[1].envmap,
                 num_frames |-> t.header[1].num_frames,
                 first_frame |-> t.header[1].first_frame,
                 format |-> t.header[1].format, num_mipmaps |-> t.num_mipmaps,
                 resources |->
                    IF has_cma
                    THEN <<[tag |-> "Cubemap Multiply Ambient", flags |-> 0,
                            offset |-> header_size],
                           [tag |-> "Image Data", flags |-> 0,
                            offset |-> header_size + (t.num_frames + 1) * 4]>>
                    ELSE <<[tag |-> "Image Data", flags |-> 0,
                            offset |-> header_size]>>,
                 payload |-> <<>>]
        \* self.cma.as_bytes(), written between the resources and the mips
        cma_bytes == IF t.cma = None THEN <<>>
                     ELSE CMA_as_bytes(t.cma[1].data)
    \* self.low_res_format, self.low_res_size: parse sets thumbnail_format
    \* and thumbnail_size, and nothing sets the names read here
    IN  IF "low_res_format" \notin DOMAIN t THEN fail("AttributeError")
        ELSE IF t.mipmap_depth = None THEN fail("struct.error")
        ELSE IF "Cyclic Redundancy Check" \in tags
        THEN fail("NotImplementedError")
        ELSE IF has_cma /\ t.cma = None THEN fail("AssertionError")
        ELSE IF has_cma /\ Len(t.cma[1].data) # t.num_frames
        THEN fail("AssertionError")
        \* one frame: the resource's offset becomes the 4 packed bytes of
        \* the float, which Resource.as_bytes hands to struct.pack as "I"
        ELSE IF has_cma /\ t.num_frames = 1 THEN fail("struct.error")
        ELSE IF "Image Data" \notin tags
                \/ tags \ {"Cubemap Multiply Ambient"} # {"Image Data"}
        THEN fail("AssertionError")
        ELSE IF ~t.header[1].envmap THEN fail("AssertionError")
        ELSE IF t.raw_data # None
        THEN [kind |-> "ok", t |-> t1,
              bytes |-> [head EXCEPT !.payload = cma_bytes \o t.raw_data[1]]]
        ELSE IF \E i \in DOMAIN keys : keys[i] \notin DOMAIN t.mipmaps
        THEN fail("KeyError")
        ELSE [kind |-> "ok", t |-> t1,
              bytes |-> [head EXCEPT !.payload = cma_bytes \o
                  Concat([i \in DOMAIN keys |-> t.mipmaps[keys[i]]])]]

(***************************************************************************)
(* Input files                                                             *)
(***************************************************************************)
Sizes == {<<w, MaxSide>> : w \in 1..MaxSide}
Shorts == 0..MaxShort
\* payload length of a file whose format has no bytes-per-pixel entry
RawLen == 3
Seed == 16

DdsFile(hdr, magic, size, nm, h2, short) ==
    LET need == IF hdr # "ok" THEN 0
                ELSE IF h2.format \in DOMAIN dds_bytes_per_pixel
                THEN h2.array_size * SumSeq(Dds_mip_sizes(size, nm, h2.format))
                ELSE RawLen
    IN  [codec |-> "dds", hdr |-> hdr, filename |-> <<"tex", "dds">>,
         magic |-> magic, size |-> size, num_mipmaps |-> nm,
         format |-> h2.format, dimension |-> h2.dimension,
         misc_flag |-> h2.misc_flag, array_size |-> h2.array_size,
         payload |-> Payload(Seed, Max(need - short, 0))]

DdsFiles ==
    {DdsFile("ok", "DX10", size, nm,
             [format |-> fmt, dimension |-> dim, misc_flag |-> misc,
              array_size |-> arr], short) :
        size \in Sizes, nm \in 0..MaxMips,
        fmt \in {"R_8_UNORM", "BC1_UNORM", "BC2_UNORM", UnnamedDxgi},
        dim \in {"TEXTURE_2D", "TEXTURE_3D"}, misc \in {0, CUBEMAP},
        arr \in {0, 1, 2, 6, 12}, short \in Shorts}
    \cup
    {[DdsFile("ok", magic, size, nm, NoDX10, 0) EXCEPT
        !.payload = Payload(Seed,
            Max((IF magic = "DXT1"
                 THEN SumSeq(Dds_mip_sizes(size, nm, "BC1_UNORM"))
                 ELSE RawLen) - short, 0))] :
        magic \in {"DXT1", "BC4U", "ABCD"}, size \in Sizes,
        nm \in 0..MaxMips, short \in Shorts}
    \cup
    {DdsFile(hdr, "DX10", <<1, 1>>, 1,
             [NoDX10 EXCEPT !.format = "R_8_UNORM"], 0) :
        hdr \in {"short", "bad"}}
    \cup
    \* a 6x6 BC1 texture holding whole 4x4 tiles for every level
    {[DdsFile("ok", "DX10", <<6, 6>>, nm,
              [format |-> "BC1_UNORM", dimension |-> "TEXTURE_3D",
               misc_flag |-> 0, array_size |-> 1], 0) EXCEPT
        !.payload = Payload(Seed,
            SumSeq([k \in 1..nm |->
                      (RoundTile(Shr(6, k - 1)) * RoundTile(Shr(6, k - 1))) \div 2]))] :
        nm \in 1..MaxMips}

PvrFile(hdr, gbix, data_size, pixel, texture, size, n) ==
    [codec |-> "pvr", hdr |-> hdr, filename |-> <<"tex", "pvr">>,
     gbix |-> gbix, data_size |-> data_size, pixel_mode |-> pixel,
     texture_mode |-> texture, size |-> size, payload |-> Payload(Seed, n)]

PvrNeed(size, pixel) ==
    IF pixel \in DOMAIN pvr_bytes_per_pixel
    THEN SumSeq(Pvr_mip_sizes(size, 1, pixel)) ELSE RawLen

PvrFiles ==
    {PvrFile("ok", gbix, PvrNeed(size, pixel) + 8 + d, pixel, texture, size,
             Max(PvrNeed(size, pixel) - short, 0)) :
        gbix \in {None, Some(<<1, 2, 3, 4>>)}, d \in {-1, 0, 1},
        pixel \in {0, 5, 7, 8}, texture \in TextureMode \cup {14},
        size \in Sizes, short \in Shorts}
    \cup
    {PvrFile(hdr, None, 16, 0, 1, <<2, 2>>, 0) : hdr \in {"short", "bad"}}

VtfFile(hdr, version, size, envmap, nf, ff, fmt, nm, thumb, res, hs, short) ==
    LET hend == Vtf_header_end(version[2], Len(res))
        tlen == IF thumb[1] \in DOMAIN vtf_bytes_per_pixel
                THEN mip_data_size(thumb[2], 0, thumb[1]) ELSE 0
        keys == Vtf_parse_keys(nf, nm, envmap)
        ilen == IF fmt \in DOMAIN vtf_bytes_per_pixel
                THEN SumSeq([i \in DOMAIN keys |->
                                mip_data_size(size, keys[i].mip, fmt)])
                ELSE RawLen
    IN  [codec |-> "vtf", hdr |-> hdr, filename |-> <<"tex", "vtf">>,
         major |-> version[1], minor |-> version[2],
         header_size |-> IF hs = 0 THEN hend ELSE hs, size |-> size,
         envmap |-> envmap, num_frames |-> nf, first_frame |-> ff,
         format |-> fmt, num_mipmaps |-> nm,
         thumbnail_format |-> thumb[1], thumbnail_size |-> thumb[2],
         mipmap_depth |-> 1,
         resources |->
            [i \in DOMAIN res |->
                [tag |-> res[i], flags |-> 0,
                 offset |-> IF res[i] = "Thumbnail" THEN hend
                            ELSE hend + tlen]],
         payload |-> Payload(Seed, Max(tlen + ilen - short, 0))]

VtfThumbs == {<<"NONE", <<0, 0>>>>, <<"DXT1", <<1, 1>>>>}

VtfFiles ==
    {VtfFile("ok", <<7, vr[1]>>, size, envmap, nf, 0, fmt, nm, thumb,
             vr[2], 0, short) :
        vr \in {<<1, <<>>>>, <<2, <<>>>>, <<3, <<>>>>,
                 <<3, <<"Image Data">>>>,
                 <<3, <<"Thumbnail", "Image Data">>>>,
                 <<4, <<"Thumbnail", "Image Data">>>>},
        size \in Sizes, envmap \in BOOLEAN, nf \in 1..2,
        fmt \in {"I8", "DXT1", UnnamedVtfFormat}, nm \in 0..MaxMips,
        thumb \in VtfThumbs, short \in Shorts}
    \cup
    {VtfFile(x[1], x[2], <<1, 1>>, FALSE, 1, x[3], "I8", 1,
             <<x[4], x[5]>>, <<>>, x[6], 0) :
        x \in {<<"short", <<7, 2>>, 0, "NONE", <<0, 0>>, 0>>,
                <<"bad", <<7, 2>>, 0, "NONE", <<0, 0>>, 0>>,
                <<"ok", <<8, 0>>, 0, "NONE", <<0, 0>>, 0>>,
                <<"ok", <<7, 6>>, 0, "NONE", <<0, 0>>, 0>>,
                <<"ok", <<6, 2>>, 0, "NONE", <<0, 0>>, 0>>,
                <<"ok", <<7, 0>>, 0, "NONE", <<0, 0>>, 0>>,
                <<"ok", <<7, 5>>, 0, "NONE", <<0, 0>>, 0>>,
                <<"ok", <<7, 1>>, 0, "NONE", <<0, 0>>, 65>>,
                <<"ok", <<7, 3>>, 0, "NONE", <<0, 0>>, 65>>,
                <<"ok", <<7, 2>>, 1, "NONE", <<0, 0>>, 0>>,
                <<"ok", <<7, 2>>, 0, "NONE", <<1, 1>>, 0>>,
                <<"ok", <<7, 2>>, 0, "DXT1", <<0, 0>>, 0>>,
                <<"ok", <<7, 2>>, 0, UnnamedVtfFormat, <<1, 1>>, 0>>,
                <<"ok", <<7, 2>>, 0, "NONE", <<0, 0>>, 80>>}}
    \cup
    \* a 6x6 DXT1 texture
    {VtfFile("ok", <<7, 2>>, <<6, 6>>, FALSE, 1, 0, "DXT1", nm,
             <<"NONE", <<0, 0>>>>, <<>>, 0, 0) : nm \in 1..MaxMips}
    \cup
    \* 2x2 uncompressed textures holding x[2] bytes for each pixel of each
    \* level
    {[VtfFile("ok", <<7, 2>>, <<2, 2>>, FALSE, 1, 0, x[1], nm,
              <<"NONE", <<0, 0>>>>, <<>>, 0, 0) EXCEPT
        !.payload = Payload(Seed,
            SumSeq([k \in 1..nm |-> Shr(2, k - 1) * Shr(2, k - 1) * x[2]]))] :
        x \in {<<"RGBA_8888", 4>>, <<"RGB_888", 3>>, <<"I8", 1>>},
        nm \in 1..MaxMips}
    \cup
    \* cubemaps with a Cubemap Multiply Ambient resource before the image
    \* data: the float inline in the offset field (flags 2), or the
    \* length-prefixed floats at the end of the header (flags 0), the length
    \* off by `wrong`
    {LET base == VtfFile("ok", <<7, 3>>, <<1, 2>>, TRUE, nf, 0, "I8", 1,
                         <<"NONE", <<0, 0>>>>,
                         <<"Cubemap Multiply Ambient", "Image Data">>, 0, 0)
         hend == base.header_size
     IN  [base EXCEPT
            !.resources =
                <<[tag |-> "Cubemap Multiply Ambient", flags |-> fl,
                   offset |-> IF fl = 2 THEN 1065353216 ELSE hend],
                  [tag |-> "Image Data", flags |-> 0,
                   offset |-> IF fl = 2 THEN hend ELSE hend + 4 + 4 * nf]>>,
            !.payload =
                IF fl = 2 THEN base.payload
                ELSE pack_I(4 * nf + wrong) \o Payload(Seed + 1, 4 * nf)
                         \o base.payload] :
        nf \in 1..2, fl \in {0, 2}, wrong \in {0, 1}}

InputFiles == DdsFiles \cup PvrFiles \cup VtfFiles

\* the file carries an enum value the enum class does not name, in a field
\* the struct library converts
HasUnnamedEnum(f) ==
    \/ f.codec = "dds" /\ f.magic = "DX10" /\ f.format \notin DXGI
    \/ f.codec = "vtf" /\ f.format \notin VtfFormat

(***************************************************************************)
(* The run                                                                 *)
(***************************************************************************)
Nothing == [kind |-> "none"]

Init ==
    /\ file \in InputFiles
    /\ enumsStrict \in (IF HasUnnamedEnum(file) THEN BOOLEAN ELSE {TRUE})
    /\ tex = Nothing
    /\ out = Nothing
    /\ tex2 = Nothing
    /\ kids = <<>>
    /\ heap = <<>>
    /\ pc = "start"
    /\ call = Nothing
    /\ ret = Nothing

\* Dds.parse of the input file
DdsParse ==
    /\ pc = "start" /\ file.codec = "dds"
    /\ LET r == Dds_parse(file, enumsStrict)
       IN  IF IsError(r)
           THEN /\ tex' = r /\ heap' = heap /\ pc' = "failed"
           ELSE /\ tex' = [r.t EXCEPT !.ref = Len(heap) + 1]
                /\ heap' = Append(heap, r.cell)
                /\ pc' = "parsed"
    /\ UNCHANGED <<file, enumsStrict, out, tex2, kids, call, ret>>

\* Pvr.parse of the input file
PvrParse ==
    /\ pc = "start" /\ file.codec = "pvr"
    /\ LET r == Pvr_parse(file)
       IN  IF IsError(r)
           THEN /\ tex' = r /\ pc' = "failed"
           ELSE /\ tex' = r.t /\ pc' = "parsed"
    /\ UNCHANGED <<file, enumsStrict, out, tex2, kids, heap, call, ret>>

\* Vtf.parse of the input file
VtfParse ==
    /\ pc = "start" /\ file.codec = "vtf"
    /\ LET r == Vtf_parse(file, enumsStrict)
       IN  IF IsError(r)
           THEN /\ tex' = r /\ pc' = "failed"
           ELSE /\ tex' = r.t /\ pc' = "parsed"
    /\ UNCHANGED <<file, enumsStrict, out, tex2, kids, heap, call, ret>>

\* Dds.as_bytes of the parsed texture
DdsAsBytes ==
    /\ pc = "parsed" /\ tex.kind = "Dds"
    /\ out' = Dds_as_bytes(tex, heap[tex.ref])
    /\ pc' = "serialized"
    /\ UNCHANGED <<file, enumsStrict, tex, tex2, kids, heap, call, ret>>

\* Pvr.as_bytes of the parsed texture
PvrAsBytes ==
    /\ pc = "parsed" /\ tex.kind = "Pvr"
    /\ out' = Pvr_as_bytes(tex)
    /\ pc' = "serialized"
    /\ UNCHANGED <<file, enumsStrict, tex, tex2, kids, heap, call, ret>>

\* Vtf.as_bytes of the parsed texture; the call writes self.header
VtfAsBytes ==
    /\ pc = "parsed" /\ tex.kind = "Vtf"
    /\ LET r == Vtf_as_bytes(tex)
       IN  /\ tex' = r.t
           /\ out' = IF IsError(r) THEN Raise(r.err)
                     ELSE [kind |-> "ok", bytes |-> r.bytes]
    /\ pc' = "serialized"
    /\ UNCHANGED <<file, enumsStrict, tex2, kids, heap, call, ret>>

\* Dds.parse of the bytes as_bytes returned
DdsReparse ==
    /\ pc = "serialized" /\ out.kind = "ok" /\ out.bytes.codec = "dds"
    /\ LET r == Dds_parse(out.bytes, enumsStrict)
       IN  IF IsError(r)
           THEN /\ tex2' = r /\ heap' = heap
           ELSE /\ tex2' = [r.t EXCEPT !.ref = Len(heap) + 1]
                /\ heap' = Append(heap, r.cell)
    /\ pc' = "reparsed"
    /\ UNCHANGED <<file, enumsStrict, tex, out, kids, call, ret>>

\* Pvr.parse of the bytes as_bytes returned
PvrReparse ==
    /\ pc = "serialized" /\ out.kind = "ok" /\ out.bytes.codec = "pvr"
    /\ LET r == Pvr_parse(out.bytes)
       IN  tex2' = IF IsError(r) THEN r ELSE r.t
    /\ pc' = "reparsed"
    /\ UNCHANGED <<file, enumsStrict, tex, out, kids, heap, call, ret>>

\* Dds.split of the parsed texture; kids holds the list returned or the
\* exception raised
DdsSplit ==
    /\ pc = "parsed" /\ tex.kind = "Dds"
    /\ LET r == Dds_split(tex, heap[tex.ref])
       IN  /\ heap' = [heap EXCEPT ![tex.ref] = r.cell]
           /\ kids' = IF IsError(r) THEN Raise(r.err) ELSE r.out
           /\ pc' = IF IsError(r) THEN "split_failed" ELSE "split"
    /\ UNCHANGED <<file, enumsStrict, tex, out, tex2, call, ret>>

Next ==
    \/ DdsParse
    \/ PvrParse
    \/ VtfParse
    \/ DdsAsBytes
    \/ PvrAsBytes
    \/ VtfAsBytes
    \/ DdsReparse
    \/ PvrReparse
    \/ DdsSplit

Spec == Init /\ [][Next]_vars

(***************************************************************************)
(* Properties                                                              *)
(***************************************************************************)
\* parse of the input file returned a texture
ParseReturned == pc # "start" /\ tex.kind # "error"
\* parse of the input file raised
ParseRaised == pc = "failed"

\* Texture.is_cubemap of a parsed texture, per codec
is_cubemap(t) ==
    CASE t.kind = "Dds" -> Dds_is_cubemap(heap[t.ref].header_2)
      [] t.kind = "Pvr" -> FALSE
      [] t.kind = "Vtf" -> t.header[1].envmap

\* the byte size parse computes for the mip level of key k of texture t
MipByteSize(t, k) ==
    CASE t.kind = "Dds" ->
           Dds_mip_sizes(t.max_size, t.num_mipmaps, t.format)[k.mip + 1]
      [] t.kind = "Pvr" ->
           Pvr_mip_sizes(t.max_size, t.num_mipmaps, t.format.pixel)[k.mip + 1]
      [] t.kind = "Vtf" ->
           IF k = ThumbnailKey
           THEN mip_data_size(t.thumbnail_size[1], 0, t.thumbnail_format[1])
           ELSE mip_data_size(t.max_size, k.mip, t.header[1].format)

\* every mipmaps value of t has the byte size computed for its level
MipsComplete(t) ==
    \A k \in DOMAIN t.mipmaps : Len(t.mipmaps[k]) = MipByteSize(t, k)

\* ---- C1 ----------------------------------------------------------------
\* C1 (as stated): DDS round trip.  For every well-formed DDS input whose
\* pixel format has a bytes-per-pixel entry (cubemap or flat, num_mipmaps >= 1,
\* any array_size), as_bytes of the parsed texture succeeds and parsing its
\* output yields the same header fields and the same mipmaps mapping, byte for
\* byte per MipIndex key, as the first parse.
C1_DdsRoundTrip ==
    (/\ pc \in {"serialized", "reparsed"}
     /\ tex.kind = "Dds" /\ tex.raw_data = None /\ tex.num_mipmaps >= 1
     /\ MipsComplete(tex) /\ SumLens(tex.mipmaps) = Len(file.payload))
    => /\ out.kind = "ok"
       /\ pc = "reparsed" =>
            /\ tex2.kind = "Dds"
            /\ heap[tex2.ref] = heap[tex.ref]
            /\ tex2.format = tex.format
            /\ tex2.max_size = tex.max_size
            /\ tex2.num_mipmaps = tex.num_mipmaps
            /\ tex2.num_frames = tex.num_frames
            /\ tex2.raw_data = None
            /\ tex2.mipmaps = tex.mipmaps

OtherwiseValid(f) ==
    /\ f.hdr = "ok"
    /\ f.codec = "dds" =>
         /\ f.magic = "DX10" \/ f.magic \in DOMAIN dxgi_from_magic
         /\ f.magic = "DX10" =>
              ~(HasCubemapFlag(f.misc_flag) /\ f.array_size % 6 # 0)
    /\ f.codec = "pvr" => f.texture_mode \in TextureMode
    /\ f.codec = "vtf" =>
         /\ f.major = 7 /\ f.minor <= 5
         /\ f.header_size = Vtf_header_end(f.minor, Len(f.resources))
         /\ f.first_frame = 0
         /\ \/ f.thumbnail_format = "NONE" /\ f.thumbnail_size = <<0, 0>>
            \/ /\ f.thumbnail_format \in DOMAIN vtf_bytes_per_pixel
               /\ f.thumbnail_size # <<0, 0>>

\* the pixel format the header of f carries has no bytes-per-pixel entry
NoBytesPerPixel(f) ==
    CASE f.codec = "dds" ->
           IF f.magic = "DX10" THEN f.format \notin DOMAIN dds_bytes_per_pixel
           ELSE /\ f.magic \in DOMAIN dxgi_from_magic
                /\ dxgi_from_magic[f.magic] \notin DOMAIN dds_bytes_per_pixel
      [] f.codec = "pvr" -> f.pixel_mode \notin DOMAIN pvr_bytes_per_pixel
      [] f.codec = "vtf" -> f.format \notin DOMAIN vtf_bytes_per_pixel

\* the size check of PVR fails on the header of f
PvrSizeMismatch(f) ==
    /\ f.codec = "pvr"
    /\ f.pixel_mode \in DOMAIN pvr_bytes_per_pixel
    /\ SumSeq(Pvr_mip_sizes(f.size, 1, f.pixel_mode)) + 8 # f.data_size

\* C4 (as stated): for a header that is otherwise valid, whenever the pixel
\* format value has no entry in the bytes-per-pixel table (values the format
\* enumeration does not name included), parse raises nothing and returns a
\* texture whose raw_data is all bytes after the header and whose mipmaps is
\* empty; and parse takes this fallback only when the bytes-per-pixel is
\* unknown or the PVR size check fails.
C4_SoftFailure ==
    /\ (pc # "start" /\ OtherwiseValid(file) /\ NoBytesPerPixel(file))
       => /\ ~ParseRaised
          /\ tex.raw_data = Some(file.payload)
          /\ DOMAIN tex.mipmaps = {}
    /\ (ParseReturned /\ tex.raw_data # None)
       => NoBytesPerPixel(file) \/ PvrSizeMismatch(file)

\* ---- C5 ----------------------------------------------------------------
\* C5: for a PVRT header with a known pixel mode (and a texture mode the
\* enumeration names), Pvr.parse raises nothing and populates mipmaps iff
\* sum(mip_sizes) + 8 = data_size; when data_size differs it returns raw_data
\* holding the bytes after the header and an empty mipmaps.
C5_PvrSizeReconciliation ==
    (/\ pc # "start" /\ file.codec = "pvr" /\ file.hdr = "ok"
     /\ file.pixel_mode \in DOMAIN pvr_bytes_per_pixel
     /\ file.texture_mode \in TextureMode)
    => /\ ~ParseRaised
       /\ DOMAIN tex.mipmaps # {} <=> ~PvrSizeMismatch(file)
       /\ PvrSizeMismatch(file) =>
            /\ tex.raw_data = Some(file.payload)
            /\ DOMAIN tex.mipmaps = {}
       /\ ~PvrSizeMismatch(file) => tex.raw_data = None

\* a PVR whose data_size is one byte more than the mip total plus 8, parsed
\* into the raw fallback
C5_Witness ==
    /\ pc = "parsed" /\ tex.kind = "Pvr"
    /\ file.pixel_mode \in DOMAIN pvr_bytes_per_pixel
    /\ file.data_size =
         SumSeq(Pvr_mip_sizes(file.size, 1, file.pixel_mode)) + 8 + 1
    /\ tex.raw_data = Some(file.payload) /\ Len(file.payload) > 0
    /\ DOMAIN tex.mipmaps = {}

\* ---- C6 ----------------------------------------------------------------
\* C6 (as stated): for every PVRT header whose texture mode name ends in
\* _MIPS, whatever data_size it declares, parse fails with a NotImplemented
\* error and returns no texture, neither with mipmaps nor with raw_data.
C6_MipsModesRejected ==
    (/\ pc # "start" /\ file.codec = "pvr" /\ file.hdr = "ok"
     /\ file.texture_mode \in MipsTextureModes)
    => (ParseRaised /\ tex.err = "NotImplementedError")

\* ---- C7 ----------------------------------------------------------------
\* the input is a DDS with a DX10 header the struct library parses
DX10Input(f, strict) ==
    /\ f.codec = "dds" /\ f.hdr = "ok" /\ f.magic = "DX10"
    /\ f.format \in DXGI \/ ~strict

\* is_cubemap and num_frames as the rule states them, from the header fields
CubemapByRule(f) ==
    IF f.array_size % 6 = 0 THEN f.dimension = "TEXTURE_2D"
    ELSE HasCubemapFlag(f.misc_flag)
FramesByRule(f) ==
    IF CubemapByRule(f) THEN f.array_size \div 6 ELSE f.array_size

\* C7 (as stated): for every DX10 header, parse succeeds, is_cubemap is
\* (dimension = TEXTURE_2D) when array_size % 6 = 0 and the CUBEMAP bit of
\* misc_flag otherwise, and num_frames is array_size / 6 for a cubemap and
\* array_size otherwise, for every combination of the three fields.
C7_CubemapFramesEveryHeader ==
    (pc \in {"parsed", "failed"} /\ DX10Input(file, enumsStrict))
    => /\ pc = "parsed"
       /\ is_cubemap(tex) = CubemapByRule(file)
       /\ tex.num_frames = FramesByRule(file)

\* C7 (amended): for a DX10 header, parse fails with an assertion error when
\* the CUBEMAP bit is set and array_size is not a multiple of 6; for every
\* other combination parse succeeds with is_cubemap = (dimension =
\* TEXTURE_2D) when array_size % 6 = 0 and the CUBEMAP bit otherwise, and
\* num_frames = array_size / 6 for a cubemap and array_size otherwise.
C7_CubemapFrames ==
    (pc \in {"parsed", "failed"} /\ DX10Input(file, enumsStrict))
    => IF HasCubemapFlag(file.misc_flag) /\ file.array_size % 6 # 0
       THEN ParseRaised /\ tex.err = "AssertionError"
       ELSE /\ pc = "parsed"
            /\ is_cubemap(tex) = CubemapByRule(file)
            /\ tex.num_frames = FramesByRule(file)

\* a cubemap array of 12 slices that does not set the CUBEMAP bit, parsed as
\* two cubemap frames
C7_Witness ==
    /\ pc = "parsed" /\ tex.kind = "Dds" /\ file.magic = "DX10"
    /\ file.array_size = 12 /\ file.dimension = "TEXTURE_2D"
    /\ ~HasCubemapFlag(file.misc_flag)
    /\ is_cubemap(tex) /\ tex.num_frames = 2

\* ---- C8 ----------------------------------------------------------------
\* split() has been called on the parsed texture and returned or raised
SplitDone == pc \in {"split", "split_failed"}

\* C8 (as stated): for a structured DDS with num_frames = N, split() returns
\* exactly N children; child i has array_size 6 for a cubemap parent and 1
\* otherwise, num_frames 1, the parent's num_mipmaps, format and size, the
\* parent's filename with i before the .dds extension, and a mipmaps mapping
\* keyed by MipIndex(mip, 0, face) over every mip and face of the parent,
\* each holding the parent's bytes at MipIndex(mip, i, face).
C8_SplitContent ==
    (SplitDone /\ tex.raw_data = None)
    => /\ pc = "split"
       /\ Len(kids) = tex.num_frames
       /\ LET cubemap == Dds_is_cubemap(Dds_header_2(file))
          IN  \A i \in DOMAIN kids :
                /\ heap[kids[i].ref].header_2.array_size =
                     (IF cubemap THEN 6 ELSE 1)
                /\ kids[i].num_frames = 1
                /\ kids[i].num_mipmaps = tex.num_mipmaps
                /\ kids[i].format = tex.format
                /\ kids[i].max_size = tex.max_size
                /\ kids[i].filename =
                     SubSeq(tex.filename, 1, Len(tex.filename) - 1)
                     \o <<ToString(i - 1), "dds">>
                /\ DOMAIN kids[i].mipmaps =
                     KeySpace(tex.num_mipmaps, 1, cubemap)
                /\ \A k \in DOMAIN kids[i].mipmaps :
                     kids[i].mipmaps[k] =
                       tex.mipmaps[MipIndex(k.mip, i - 1, k.face)]

\* ---- C9 ----------------------------------------------------------------
\* C9 (as stated): split() leaves the parent unchanged and gives every child
\* its own state.  After split() the parent's header objects (array_size
\* with them), num_frames, is_cubemap and mipmaps are what parse built, so
\* its as_bytes output is unchanged; split() returned one child per frame,
\* and no child holds the header objects of the parent or of a sibling, so a
\* write to a child's header field reaches neither.
C9_SplitIndependence ==
    (SplitDone /\ tex.num_frames >= 1)
    => /\ heap[tex.ref] = Dds_parse(file, enumsStrict).cell
       /\ is_cubemap(tex) = Dds_is_cubemap(Dds_header_2(file))
       /\ Dds_as_bytes(tex, heap[tex.ref]) =
            Dds_as_bytes(tex, Dds_parse(file, enumsStrict).cell)
       /\ pc = "split"
       /\ Len(kids) = tex.num_frames
       /\ \A i \in DOMAIN kids :
            /\ kids[i].ref # tex.ref
            /\ \A j \in DOMAIN kids : j # i => kids[j].ref # kids[i].ref

\* ---- C10 ---------------------------------------------------------------
\* C10 (as stated): every read of parse is exact.  A header cut short makes
\* parse fail, and parse never returns a structured texture in which some
\* mipmaps value is shorter than the byte size computed for its level.
C10_NoPartialReads ==
    /\ (pc # "start" /\ file.hdr = "short") => ParseRaised
    /\ (ParseReturned /\ tex.raw_data = None) => MipsComplete(tex)

\* ---- C11 ---------------------------------------------------------------
\* C11: PVR round trip.  For every well-formed PVR input (with or without a
\* GBIX chunk) whose pixel mode is known and whose data_size is the mip total
\* plus 8, as_bytes of the parsed texture succeeds and writes data_size =
\* payload length + 8, and parsing its output yields the same gbix,
\* data_size, format, size and mipmaps as the first parse.
C11_PvrRoundTrip ==
    (/\ pc \in {"serialized", "reparsed"}
     /\ tex.kind = "Pvr" /\ tex.raw_data = None
     /\ MipsComplete(tex) /\ SumLens(tex.mipmaps) = Len(file.payload))
    => /\ out.kind = "ok"
       /\ out.bytes.data_size = Len(out.bytes.payload) + 8
       /\ pc = "reparsed" =>
            /\ tex2.kind = "Pvr"
            /\ tex2.gbix = tex.gbix
            /\ tex2.data_size = tex.data_size
            /\ tex2.format = tex.format
            /\ tex2.max_size = tex.max_size
            /\ tex2.raw_data = None
            /\ tex2.mipmaps = tex.mipmaps

\* a PVR with a GBIX chunk and a complete mip, serialized and parsed again
C11_Witness ==
    /\ pc = "reparsed" /\ tex.kind = "Pvr" /\ tex.raw_data = None
    /\ tex.gbix # None /\ MipsComplete(tex)
    /\ SumLens(tex.mipmaps) = Len(file.payload) /\ Len(file.payload) > 0
    /\ tex2.mipmaps = tex.mipmaps

\* ---- C12 ---------------------------------------------------------------
\* C12 (as stated): VTF round trip.  For every well-formed VTF input of an
\* accepted version whose pixel format is known (cubemap or not, num_mipmaps
\* >= 1), as_bytes of the parsed texture succeeds, and parsing its output
\* yields the same header fields and the same mipmaps mapping, byte for byte
\* per MipIndex key, as the first parse.
C12_VtfRoundTrip ==
    (/\ pc = "serialized"
     /\ tex.kind = "Vtf" /\ tex.raw_data = None /\ tex.num_mipmaps >= 1
     /\ MipsComplete(tex) /\ SumLens(tex.mipmaps) = Len(file.payload))
    => /\ out.kind = "ok"
       /\ LET r == Vtf_parse(out.bytes, enumsStrict)
          IN  /\ r.kind = "ok"
              /\ r.t.header = Vtf_parse(file, enumsStrict).t.header
              /\ r.t.num_mipmaps = tex.num_mipmaps
              /\ r.t.num_frames = tex.num_frames
              /\ r.t.max_size = tex.max_size
              /\ r.t.mipmaps = tex.mipmaps

\* ---- C13 ---------------------------------------------------------------
\* the bytes a VTF header of the given minor version and resource count
\* takes, counted field by field: 56 for the fixed block, 1 for num_mipmaps,
\* 4 + 2 for the thumbnail format and size; then 1 pad byte for 7.1; 2 for
\* mipmap_depth from 7.2 on; 3 + 4 + 8 and 8 per resource from 7.3 on
HeaderBytes(minor, n) ==
    56 + 1 + 4 + 2
    + (IF minor = 1 THEN 1 ELSE 0)
    + (IF minor >= 2 THEN 2 ELSE 0)
    + (IF minor >= 3 THEN 3 + 4 + 8 + 8 * n ELSE 0)

\* C13: Vtf.parse fails with the unsupported-version error iff major # 7 or
\* minor > 5.  For an accepted version it reads mipmap_depth iff minor >= 2
\* and a resource table iff minor >= 3, then exactly num_resources 8-byte
\* records after the 8 reserved bytes, so that the header ends at 80 + 8 *
\* num_resources (96 for two resources); a 7.1 header is read with neither
\* field.  A header otherwise valid whose header_size is that end is parsed
\* (the floats of a Cubemap Multiply Ambient resource being prefixed by their
\* length), and no other header_size is.
C13_VersionGating ==
    (pc # "start" /\ file.codec = "vtf" /\ file.hdr = "ok")
    => /\ (ParseRaised /\ tex.err = "NotImplementedError")
            <=> (file.major # 7 \/ file.minor > 5)
       /\ ParseReturned =>
            /\ tex.mipmap_depth # None <=> file.minor >= 2
            /\ DOMAIN tex.resources # {} => file.minor >= 3
            /\ Cardinality(DOMAIN tex.resources) = Len(file.resources)
            /\ file.header_size = HeaderBytes(file.minor, Len(file.resources))
       /\ (/\ file.major = 7 /\ file.minor <= 5
           /\ file.header_size = HeaderBytes(file.minor, Len(file.resources))
           /\ file.first_frame = 0
           /\ file.format \in VtfFormat
           /\ file.thumbnail_format = "NONE" /\ file.thumbnail_size = <<0, 0>>
           /\ \A i \in DOMAIN file.resources :
                (file.resources[i].tag = "Cubemap Multiply Ambient"
                    /\ file.resources[i].flags # 2)
                => SubSeq(file.payload,
                          file.resources[i].offset - file.header_size + 1,
                          file.resources[i].offset - file.header_size + 4)
                   = pack_I(4 * file.num_frames))
          => ParseReturned

\* a 7.3 file with two resources, parsed with a 96-byte header
C13_Witness ==
    /\ pc = "parsed" /\ tex.kind = "Vtf" /\ file.minor = 3
    /\ Len(file.resources) = 2 /\ file.header_size = 96
    /\ Cardinality(DOMAIN tex.resources) = 2 /\ tex.mipmap_depth # None

\* ---- C27 ---------------------------------------------------------------
\* C27: for a parsed VTF whose Cubemap Multiply Ambient resource holds one
\* float per frame, as_bytes succeeds; it stores the float in the resource's
\* offset field with flags 2 when num_frames = 1, and otherwise writes the
\* u32 length 4 * num_frames and the floats at the resource's offset with the
\* image data right after them; parsing the output recovers the floats.
C27_CmaRoundTrip ==
    (/\ pc = "serialized" /\ tex.kind = "Vtf" /\ tex.cma # None
     /\ Len(tex.cma[1].data) = tex.num_frames)
    => /\ out.kind = "ok"
       /\ LET cma == CHOOSE r \in Range(out.bytes.resources) :
                         r.tag = "Cubemap Multiply Ambient"
              img == CHOOSE r \in Range(out.bytes.resources) :
                         r.tag = "Image Data"
              at == cma.offset - out.bytes.header_size
          IN  /\ tex.num_frames = 1
                    => cma.flags = 2 /\ pack_I(cma.offset) = tex.cma[1].data[1]
              /\ tex.num_frames # 1
                    => /\ SubSeq(out.bytes.payload, at + 1, at + 4)
                          = pack_I(4 * tex.num_frames)
                       /\ img.offset = cma.offset + 4 + 4 * tex.num_frames
              /\ Vtf_parse(out.bytes, enumsStrict).kind = "ok"
              /\ Vtf_parse(out.bytes, enumsStrict).t.cma = tex.cma

\* ---- C22 ---------------------------------------------------------------
\* the keys of a DDS texture in the order frame, face (None for a flat
\* texture), mip; mip ascending or descending
DdsKeyOrder(t, ascending) ==
    LET faces == IF is_cubemap(t) THEN Faces ELSE <<None>>
        nm == t.num_mipmaps
    IN  [i \in 1..(t.num_frames * Len(faces) * nm) |->
            MipIndex(IF ascending THEN (i - 1) % nm ELSE nm - 1 - ((i - 1) % nm),
                     (i - 1) \div (Len(faces) * nm),
                     faces[(((i - 1) \div nm) % Len(faces)) + 1])]

\* C22: Dds.parse assigns consecutive payload slices to the keys in the order
\* frame, face 0..5, mip ascending; Dds.as_bytes emits the mips in the order
\* frame, face, mip descending; for a non-cubemap the face axis collapses to
\* None and the same frame/mip rule applies.
C22_DdsMipOrder ==
    (/\ pc # "start" /\ tex.kind = "Dds" /\ tex.raw_data = None
     /\ MipsComplete(tex))
    => /\ Concat([i \in DOMAIN DdsKeyOrder(tex, TRUE) |->
                    tex.mipmaps[DdsKeyOrder(tex, TRUE)[i]]])
          = SubSeq(file.payload, 1, SumLens(tex.mipmaps))
       /\ pc \in {"serialized", "reparsed"} =>
            /\ out.kind = "ok"
            /\ out.bytes.payload =
                 Concat([i \in DOMAIN DdsKeyOrder(tex, FALSE) |->
                            tex.mipmaps[DdsKeyOrder(tex, FALSE)[i]]])

\* ---- C23 ---------------------------------------------------------------
\* C23: for every structured DDS or VTF parse and every level k, the number
\* of bytes assigned to a mip of level k is max(ceil(w_k * h_k *
\* bytes_per_pixel), min_block_size) with (w_k, h_k) = (width >> k,
\* height >> k), each first rounded up to a multiple of 4 (minimum 4) for
\* the block-compressed formats: a 6x6 BC1 level takes 32 bytes.  Stated for
\* the parses with no read cut short by the end of the file.
C23_MipByteSize ==
    (/\ ParseReturned /\ tex.kind \in {"Dds", "Vtf"} /\ tex.raw_data = None
     /\ MipsComplete(tex))
    => \A k \in DOMAIN tex.mipmaps \ {ThumbnailKey} :
         LET fmt == IF tex.kind = "Dds" THEN tex.format ELSE tex.header[1].format
             block == fmt \in {"BC1_UNORM", "BC5_UNORM", "DXT1", "DXT5"}
             w0 == Shr(tex.max_size[1], k.mip)
             h0 == Shr(tex.max_size[2], k.mip)
             w == IF block THEN Max(((w0 + 3) \div 4) * 4, 4) ELSE w0
             h == IF block THEN Max(((h0 + 3) \div 4) * 4, 4) ELSE h0
             \* bytes per pixel as <<numerator, denominator>>
             bpp == CASE fmt \in {"BC1_UNORM", "DXT1"} -> <<1, 2>>
                      [] fmt \in {"BC5_UNORM", "DXT5", "R_8_UNORM", "I8"} -> <<1, 1>>
                      [] fmt = "R_1_UNORM" -> <<1, 8>>
                      [] fmt = "RGB_888" -> <<3, 1>>
                      [] fmt = "RGBA_8888" -> <<4, 1>>
             mbs == CASE fmt = "BC1_UNORM" -> 8
                      [] fmt = "BC5_UNORM" -> 16
                      [] fmt = "R_1_UNORM" -> 1
                      [] OTHER -> 0
         IN  Len(tex.mipmaps[k]) = Max(CeilFrac(w * h, bpp[1], bpp[2]), mbs)

\* ---- C30 ---------------------------------------------------------------
\* C30: for every VTF uncompressed format the number of payload bytes
\* Vtf.parse assigns to a mip of level k is (width >> k) * (height >> k) *
\* (bits per pixel / 8), 4 bytes per pixel for RGBA_8888 and 3 for RGB_888,
\* and the slices of all mips, frames and faces together cover exactly the
\* image payload of a well-formed file: one with no thumbnail whose payload
\* holds that many bytes for every key.
C30_VtfByteSizes ==
    LET bytes == CASE file.format = "RGBA_8888" -> 4
                   [] file.format = "RGB_888" -> 3
                   [] OTHER -> 1
        size(k) == Shr(file.size[1], k.mip) * Shr(file.size[2], k.mip) * bytes
        keys == KeySpace(file.num_mipmaps, file.num_frames, file.envmap)
    IN  (/\ ParseReturned /\ tex.kind = "Vtf"
         /\ file.format \in {"RGBA_8888", "RGB_888", "I8"}
         /\ file.thumbnail_format = "NONE"
         /\ Len(file.payload) = SumSeq([i \in 1..Cardinality(keys) |->
                                   size(Vtf_parse_keys(file.num_frames,
                                            file.num_mipmaps, file.envmap)[i])]))
        => /\ tex.raw_data = None
           /\ \A k \in DOMAIN tex.mipmaps : Len(tex.mipmaps[k]) = size(k)
           /\ SumLens(tex.mipmaps) = Len(file.payload)

\* ---- C29 ---------------------------------------------------------------
\* C29: for every PVR input that parse stores in the raw_data fallback
\* (unknown pixel mode or data_size mismatch), as_bytes succeeds and parsing
\* its output gives again a raw_data fallback texture with the same raw_data,
\* the same data_size and empty mipmaps, never a structured one.
C29_PvrFallbackStable ==
    (/\ pc \in {"serialized", "reparsed"}
     /\ tex.kind = "Pvr" /\ tex.raw_data # None)
    => /\ out.kind = "ok"
       /\ pc = "reparsed" =>
            /\ tex2.kind = "Pvr"
            /\ tex2.raw_data = tex.raw_data
            /\ tex2.data_size = tex.data_size
            /\ DOMAIN tex2.mipmaps = {}

(***************************************************************************)
(* decode/s3tc.py                                                          *)
(***************************************************************************)
\* Python's  a | b  and  a & b  on non-negative integers
RECURSIVE BitOr(_, _)
BitOr(a, b) ==
    IF a = 0 THEN b
    ELSE IF b = 0 THEN a
    ELSE Max(a % 2, b % 2) + 2 * BitOr(a \div 2, b \div 2)

RECURSIVE BitAnd(_, _)
BitAnd(a, b) ==
    IF a = 0 \/ b = 0 THEN 0
    ELSE Min(a % 2, b % 2) + 2 * BitAnd(a \div 2, b \div 2)

\* Python's ordering of two tuples of the same length
RECURSIVE TupleGt(_, _)
TupleGt(a, b) ==
    IF a = <<>> THEN FALSE
    ELSE IF Head(a) # Head(b) THEN Head(a) > Head(b)
    ELSE TupleGt(Tail(a), Tail(b))

rgb565_as_rgb888(pixel) ==
    LET r == BitAnd(Shr(pixel, 11), 31)
        g == BitAnd(Shr(pixel, 5), 63)
        b == BitAnd(pixel, 31)
    IN  << BitAnd(BitOr(r, r * 8), 255),
           BitAnd(BitOr(g, g * 4), 255),
           BitAnd(BitOr(b, b * 8), 255) >>

\* struct.unpack("2H", block[:4]): two little-endian unsigned shorts
unpack_2H(block) == << block[1] + 256 * block[2], block[3] + 256 * block[4] >>

\* the 4x4 array of palette entries picked by the index bytes block[4:]
decode_indices(palette, block) ==
    [i \in 1..4 |->
        [j \in 1..4 |-> palette[(Shr(block[4 + j], (i - 1) * 2) % 4) + 1]]]

\* the palette DXT1_block decodes: the endpoints are compared after their
\* conversion to rgb888 tuples
DXT1_block_palette(block) ==
    LET c0 == rgb565_as_rgb888(unpack_2H(block)[1])
        c1 == rgb565_as_rgb888(unpack_2H(block)[2])
    IN  IF TupleGt(c0, c1)
        THEN << c0, c1,
                [k \in 1..3 |-> (c0[k] * 2) \div 3 + c1[k] \div 3],
                [k \in 1..3 |-> c0[k] \div 3 + (c1[k] * 2) \div 3] >>
        ELSE << c0, c1,
                [k \in 1..3 |-> c0[k] \div 2 + c1[k] \div 2],
                <<0, 0, 0>> >>

DXT1_block(block) == decode_indices(DXT1_block_palette(block), block)

\* "single palette mode"
DXT1_block_fast(block) ==
    LET c0 == rgb565_as_rgb888(unpack_2H(block)[1])
        c1 == rgb565_as_rgb888(unpack_2H(block)[2])
        palette == << c0, c1,
                      [k \in 1..3 |-> (c0[k] * 2) \div 3 + c1[k] \div 3],
                      [k \in 1..3 |-> c0[k] \div 3 + (c1[k] * 2) \div 3] >>
    IN  decode_indices(palette, block)

\* concatenate(tiles, width, height): rows of num_cols tiles joined along
\* axis 0, the rows joined along axis 1
concatenate(tiles, width, height) ==
    LET tile_width == Len(tiles[1])
        tile_height == Len(tiles[1][1])
        num_cols == CeilFrac(width, 1, tile_width)
        num_rows == CeilFrac(height, 1, tile_height)
        rows == [r \in 1..num_rows |->
                    Concat(SubSeq(tiles, (r - 1) * num_cols + 1,
                                  Min(r * num_cols, Len(tiles))))]
    IN  IF num_cols * num_rows # Len(tiles) THEN Raise("AssertionError")
        ELSE [kind |-> "ok",
              value |-> [x \in 1..Len(rows[1]) |->
                            Concat([r \in 1..num_rows |-> rows[r][x]])]]

\* Texture.mip_size
mip_size(max_size, index) ==
    << Shr(max_size[1], index.mip), Shr(max_size[2], index.mip) >>

\* DXT1(texture, mip_index=None, fast=True); a mip is held as its sequence
\* of 8-byte blocks.  Texture defines default_index, not default_mip.
DXT1(texture, mip_index, fast) ==
    IF mip_index = None THEN Raise("AttributeError")
    ELSE IF mip_index[1] \notin DOMAIN texture.mipmaps THEN Raise("KeyError")
    ELSE LET pixel_data == texture.mipmaps[mip_index[1]]
             tiles == [n \in 1..Len(pixel_data) |->
                          IF fast THEN DXT1_block_fast(pixel_data[n])
                          ELSE DXT1_block(pixel_data[n])]
             size == mip_size(texture.max_size, mip_index[1])
         IN  concatenate(tiles, size[1], size[2])

\* bounds of the endpoint colours drawn: every 5-bit red, a few greens and
\* blues
MaxGreen == 1
MaxBlue == 0

\* index bytes that pick each palette entry somewhere in the tile
IndexRows == <<228, 27, 0, 255>>

\* the 8-byte blocks drawn: both endpoints over the colours, low byte first
Blocks ==
    LET Colours565 == {r * 2048 + g * 32 + b :
                          r \in 0..31, g \in 0..MaxGreen, b \in 0..MaxBlue}
    IN  {<< c0 % 256, c0 \div 256, c1 % 256, c1 \div 256 >> \o IndexRows :
            c0 \in Colours565, c1 \in Colours565}

DXT1_block_calls == {[fn |-> "DXT1_block", block |-> b] : b \in Blocks}

\* DXT1 of a texture with one 4x4 mip holding the block, fast left at its
\* default; mip_index defaulted or given
DXT1_calls ==
    {[fn |-> "DXT1", block |-> b,
      texture |-> [max_size |-> <<4, 4>>,
                   mipmaps |-> [k \in {MipIndex(0, 0, None)} |-> <<b>>]],
      mip_index |-> m, fast |-> TRUE] :
        b \in Blocks, m \in {None, Some(MipIndex(0, 0, None))}}

Call_DXT1_block ==
    /\ pc = "start" /\ call.fn = "DXT1_block"
    /\ ret' = [kind |-> "ok", value |-> DXT1_block(call.block)]
    /\ pc' = "returned"
    /\ UNCHANGED <<file, enumsStrict, tex, out, tex2, kids, heap, call>>

Call_DXT1 ==
    /\ pc = "start" /\ call.fn = "DXT1"
    /\ ret' = DXT1(call.texture, call.mip_index, call.fast)
    /\ pc' = "returned"
    /\ UNCHANGED <<file, enumsStrict, tex, out, tex2, kids, heap, call>>

\* ---- C14 ---------------------------------------------------------------
\* the palette the BC1 rule gives: 4 colours iff c0 > c1 as the stored
\* 16-bit integers
BC1Palette(block) ==
    LET c0 == rgb565_as_rgb888(unpack_2H(block)[1])
        c1 == rgb565_as_rgb888(unpack_2H(block)[2])
    IN  IF unpack_2H(block)[1] > unpack_2H(block)[2]
        THEN << c0, c1,
                [k \in 1..3 |-> (c0[k] * 2) \div 3 + c1[k] \div 3],
                [k \in 1..3 |-> c0[k] \div 3 + (c1[k] * 2) \div 3] >>
        ELSE << c0, c1,
                [k \in 1..3 |-> c0[k] \div 2 + c1[k] \div 2],
                <<0, 0, 0>> >>

\* C14: on every BC1 decode path (DXT1_block, and DXT1 called with its
\* default arguments) the tile decoded from an 8-byte block is drawn from the
\* 4-colour palette iff c0 > c1 as 16-bit RGB565 integers, and from the
\* 3-colour palette (midpoint, (0,0,0)) otherwise.
C14_BC1TieBreak ==
    (pc = "returned" /\ call.fn \in {"DXT1_block", "DXT1"})
    => /\ ret.kind = "ok"
       /\ ret.value = decode_indices(BC1Palette(call.block), call.block)

\* variant of the alpha palette: the 6-step ramp whatever the endpoint order
DXT5_alpha_palette_one_mode(a0, a1) ==
    << a0, a1,
       (a0 * 4 + a1 * 1) \div 5, (a0 * 3 + a1 * 2) \div 5,
       (a0 * 2 + a1 * 3) \div 5, (a0 * 1 + a1 * 4) \div 5, 0, 255 >>

\* DXT5_alpha_block: decode palette
DXT5_alpha_palette(a0, a1) ==
    IF a0 > a1
    THEN << a0, a1,
            (a0 * 6 + a1 * 1) \div 7, (a0 * 5 + a1 * 2) \div 7,
            (a0 * 4 + a1 * 3) \div 7, (a0 * 3 + a1 * 4) \div 7,
            (a0 * 2 + a1 * 5) \div 7, (a0 * 1 + a1 * 6) \div 7 >>
    ELSE << a0, a1,
            (a0 * 4 + a1 * 1) \div 5, (a0 * 3 + a1 * 2) \div 5,
            (a0 * 2 + a1 * 3) \div 5, (a0 * 1 + a1 * 4) \div 5, 0, 255 >>

\* DXT5_alpha_block: the four 12-bit rows cut out of the hex digits of
\* block[2:8]
DXT5_alpha_rows(block) ==
    << block[3] * 16 + Shr(block[4], 4),
       (block[4] % 16) * 256 + block[5],
       block[6] * 16 + Shr(block[7], 4),
       (block[7] % 16) * 256 + block[8] >>

\* np.rot90(array, 3) of the 4x4x1 array of palette entries, one row of the
\* array per 12-bit row
rot90_3(palette, rows) ==
    [i \in 1..4 |->
        [j \in 1..4 |-> << palette[(Shr(rows[5 - j], (i - 1) * 3) % 8) + 1] >>]]

DXT5_alpha_block(block) ==
    rot90_3(DXT5_alpha_palette(block[1], block[2]), DXT5_alpha_rows(block))

\* index bytes whose rows pick 0..3 and 4..7: every palette entry is used
AlphaIndexBytes == <<104, 143, 172, 104, 143, 172>>

\* the endpoint bytes drawn: 0..255 in AlphaSteps even steps, and the
\* neighbours of the ends
AlphaSteps == 51

DXT5_alpha_block_calls ==
    LET Alphas == {(255 * k) \div AlphaSteps : k \in 0..AlphaSteps}
                      \cup {1, 50, 200, 254}
    IN  {[fn |-> "DXT5_alpha_block", block |-> <<a0, a1>> \o AlphaIndexBytes] :
            a0 \in Alphas, a1 \in Alphas}

Call_DXT5_alpha_block ==
    /\ pc = "start" /\ call.fn = "DXT5_alpha_block"
    /\ ret' = [kind |-> "ok", value |-> DXT5_alpha_block(call.block)]
    /\ pc' = "returned"
    /\ UNCHANGED <<file, enumsStrict, tex, out, tex2, kids, heap, call>>

\* ---- C15 ---------------------------------------------------------------
\* C15: for endpoint bytes a0, a1, DXT5_alpha_block decodes with the palette
\* (a0, a1, a2..a7) where, if a0 > a1, a_k = ((8-k)*a0 + (k-1)*a1) div 7 for
\* k = 2..7 and a0 >= a2 >= ... >= a7 >= a1; and if a0 <= a1,
\* a_k = ((6-k)*a0 + (k-1)*a1) div 5 for k = 2..5, palette[6] = 0 and
\* palette[7] = 255.  The index bytes pick entry 0..3 in rows 1 and 3 and
\* entry 4..7 in rows 2 and 4, so the tile shows the whole palette.
C15_AlphaPalette ==
    (pc = "returned" /\ call.fn = "DXT5_alpha_block")
    => LET a0 == call.block[1]
           a1 == call.block[2]
           a == [k \in 0..7 |->
                   IF k = 0 THEN a0
                   ELSE IF k = 1 THEN a1
                   ELSE IF a0 > a1 THEN ((8 - k) * a0 + (k - 1) * a1) \div 7
                   ELSE IF k <= 5 THEN ((6 - k) * a0 + (k - 1) * a1) \div 5
                   ELSE IF k = 6 THEN 0 ELSE 255]
       IN  /\ \A i \in 1..4 :
                /\ ret.value[i][4] = << a[i - 1] >>
                /\ ret.value[i][3] = << a[i + 3] >>
                /\ ret.value[i][2] = << a[i - 1] >>
                /\ ret.value[i][1] = << a[i + 3] >>
           /\ a0 > a1 =>
                /\ a[0] >= a[2] /\ a[7] >= a[1]
                /\ \A k \in 2..6 : a[k] >= a[k + 1]

\* a0 = 200 > a1 = 50 decoded, and a0 = 50 <= a1 = 200 decoded
C15_Witness ==
    /\ pc = "returned" /\ call.fn = "DXT5_alpha_block"
    /\ \/ /\ call.block[1] = 200 /\ call.block[2] = 50
          /\ ret.value[3][4] = <<178>> /\ ret.value[4][3] = <<71>>
       \/ /\ call.block[1] = 50 /\ call.block[2] = 200
          /\ ret.value[3][3] = <<0>> /\ ret.value[4][3] = <<255>>

(***************************************************************************)
(* decode/twiddle.py                                                       *)
(***************************************************************************)
\* variant of the increments: every step 2
row_increments_flat == [i \in 1..1055 |-> 2]

\* detwiddle_lut: pattern_a after each entry of pattern_b but the last, which
\* has none
row_increments ==
    LET sequence == <<2, 6, 2, 22, 2, 6, 2>>
        pattern_a == sequence \o <<86>> \o sequence \o <<342>>
                     \o sequence \o <<86>> \o sequence
        pattern_b == << 1366, 5462, 1366, 21846, 1366, 5462, 1366, 87382,
                        1366, 5462, 1366, 21846, 1366, 5462, 1366, 349526,
                        1366, 5462, 1366, 21846, 1366, 5462, 1366, 87382,
                        1366, 5462, 1366, 21846, 1366, 5462, 1366, 349526 >>
    IN  Concat([k \in 1..32 |-> pattern_a \o << pattern_b[k] >>]) \o pattern_a

\* the running sums of the increments, from 0
RECURSIVE running(_, _)
running(increments, index) ==
    IF increments = <<>> THEN <<>>
    ELSE <<index>> \o running(Tail(increments), index + Head(increments))

detwiddle_lut(width, height) ==
    IF width # height THEN Raise("NotImplementedError")
    ELSE LET slice_ == SubSeq(row_increments, 1,
                              Min(width - 1, Len(row_increments))) \o <<2>>
             row == running(slice_, 0)
             n == Len(row)
         IN  [kind |-> "ok",
              value |-> [k \in 1..(n * n) |->
                            row[((k - 1) \div n) + 1]
                            + (row[((k - 1) % n) + 1] \div 2)]]

\* sides drawn: every side up to MaxPlainSide, and the powers of two up to
\* 2^MaxLutBits
MaxPlainSide == 6
MaxLutBits == 6

detwiddle_lut_calls ==
    LET Sides == 1..MaxPlainSide \cup {Pow2(k) : k \in 0..MaxLutBits}
    IN  {[fn |-> "detwiddle_lut", width |-> w, height |-> h] :
            w \in Sides, h \in Sides}

Call_detwiddle_lut ==
    /\ pc = "start" /\ call.fn = "detwiddle_lut"
    /\ ret' = detwiddle_lut(call.width, call.height)
    /\ pc' = "returned"
    /\ UNCHANGED <<file, enumsStrict, tex, out, tex2, kids, heap, call>>

IsPowerOfTwo(n) == \E k \in 0..n : Pow2(k) = n

\* ---- C16 ---------------------------------------------------------------
\* C16: for width = height = w, w a power of two the table supports,
\* detwiddle_lut(w, w) has exactly w*w entries and is a permutation of
\* 0..w*w-1.
C16_LutBijection ==
    (/\ pc = "returned" /\ call.fn = "detwiddle_lut"
     /\ call.width = call.height /\ IsPowerOfTwo(call.width))
    => /\ ret.kind = "ok"
       /\ Len(ret.value) = call.width * call.width
       /\ Range(ret.value) = 0..(call.width * call.width - 1)

\* the 4x4 table and one that needs an entry of pattern_b
C16_Witness ==
    /\ pc = "returned" /\ call.fn = "detwiddle_lut"
    /\ \/ /\ call.width = 4 /\ call.height = 4
          /\ ret.value = <<0, 1, 4, 5, 2, 3, 6, 7, 8, 9, 12, 13, 10, 11, 14, 15>>
       \/ /\ call.width = 64 /\ call.height = 64 /\ Len(ret.value) = 4096

\* ---- C17 ---------------------------------------------------------------
\* C17: detwiddle_lut(width, height) fails with the unsupported-geometry
\* error for every input that is non-square or whose side is not a power of
\* two; it never returns a table for such an input.
C17_GeometryCheck ==
    (/\ pc = "returned" /\ call.fn = "detwiddle_lut"
     /\ (call.width # call.height \/ ~IsPowerOfTwo(call.width)))
    => /\ ret.kind = "error"
       /\ ret.err = "NotImplementedError"

(***************************************************************************)
(* textures/base.py: MipIndex.__eq__ and __hash__                          *)
(***************************************************************************)
\* a face argument that is a plain integer, not a Face member
IntFace(n) == <<"int", n>>

\* CPython's hash of an int: the value itself, but -2 for -1 (-1 is the
\* error return of the hash slot)
int_hash(n) == IF n = -1 THEN -2 ELSE n

\* hash((mip, frame, face)): a function of the hashes of the three elements,
\* taken here as injective in them; a Face member and None hash apart from
\* each other and from the integers
MipIndex_hash(a) ==
    << int_hash(a.mip), int_hash(a.frame),
       IF a.face # None /\ a.face[1] = "int"
       THEN IntFace(int_hash(a.face[2])) ELSE a.face >>

\* MipIndex.__eq__(a, b), b a MipIndex
MipIndex_eq(a, b) == MipIndex_hash(a) = MipIndex_hash(b)

\* {a: entry}.get(b): the entry is found when the hashes agree and a == b
mipmaps_get(a, b) ==
    IF MipIndex_hash(a) = MipIndex_hash(b) /\ (a = b \/ MipIndex_eq(a, b))
    THEN Some("entry") ELSE None

\* the field values drawn: the integers from -2 up, a few faces of each kind
MaxIndexInt == 1

MipIndex_calls ==
    LET Ints == -2..MaxIndexInt
        FaceArgs == {None, Face(0), Face(1), IntFace(0), IntFace(1)}
        Indices == {MipIndex(m, f, c) : m \in Ints, f \in Ints, c \in FaceArgs}
    IN  {[fn |-> "MipIndex.__eq__", a |-> a, b |-> b] :
            a \in Indices, b \in Indices}

\* a == b, the two hashes, and the lookup of b in {a: entry}
Call_MipIndex_eq ==
    /\ pc = "start" /\ call.fn = "MipIndex.__eq__"
    /\ ret' = [kind |-> "ok",
               eq |-> MipIndex_eq(call.a, call.b),
               hash_a |-> MipIndex_hash(call.a),
               hash_b |-> MipIndex_hash(call.b),
               entry |-> mipmaps_get(call.a, call.b)]
    /\ pc' = "returned"
    /\ UNCHANGED <<file, enumsStrict, tex, out, tex2, kids, heap, call>>

\* ---- C18 ---------------------------------------------------------------
\* C18: for all MipIndex values a and b, a == b iff the mip, frame and face
\* fields match; equal indices have equal hashes; two indices that differ in
\* a field (a face given as Face(n) against the integer n or None included)
\* are never equal and never select the same mipmaps entry.
C18_MipIndexEquality ==
    (pc = "returned" /\ call.fn = "MipIndex.__eq__")
    => LET same == /\ call.a.mip = call.b.mip
                   /\ call.a.frame = call.b.frame
                   /\ call.a.face = call.b.face
       IN  /\ ret.eq <=> same
           /\ ret.eq => ret.hash_a = ret.hash_b
           /\ ~same => ret.entry = None

(***************************************************************************)
(* pixels/base.py                                                          *)
(***************************************************************************)
\* Channel(name, bits): char is name[0].upper()
Channel(name, bits) ==
    [name |-> name, bits |-> bits,
     char |-> CASE name = "red" -> "R" [] name = "green" -> "G"
                [] name = "blue" -> "B" [] name = "alpha" -> "A"
                [] OTHER -> "L"]

\* Channel.__eq__ compares the hashes of (name, bits, char)
Channel_eq(a, b) == <<a.name, a.bits, a.char>> = <<b.name, b.bits, b.char>>

\* list.index(channel): the first position holding an equal channel
channels_index(channels, channel) ==
    CHOOSE i \in DOMAIN channels :
        /\ Channel_eq(channels[i], channel)
        /\ \A j \in 1..(i - 1) : ~Channel_eq(channels[j], channel)

\* Format.parser_for: dtype (as its width in bits) and stride
parser_for(channels) ==
    LET channel_bits == [i \in DOMAIN channels |-> channels[i].bits]
        bpp == SumSeq(channel_bits)
        sizes == Range(channel_bits)
    IN  IF bpp \in {32, 16, 8}
        THEN [kind |-> "ok", dtype |-> bpp, stride |-> "PIXEL"]
        ELSE IF Cardinality(sizes) = 1
        THEN IF sizes \subseteq {32, 16, 8}
             THEN [kind |-> "ok", dtype |-> CHOOSE b \in sizes : TRUE,
                   stride |-> "CHANNEL"]
             ELSE Raise("KeyError")
        ELSE Raise("RuntimeError")

\* Format(**channels)
Format(channels) ==
    LET p == parser_for(channels)
    IN  IF IsError(p) THEN p
        ELSE [kind |-> "ok", channels |-> channels,
              dtype |-> p.dtype, stride |-> p.stride]

\* bits offset..offset+bits-1 of the little-endian integer held in bytes
RECURSIVE extract_bits(_, _, _)
extract_bits(bytes, offset, bits) ==
    IF bits = 0 THEN 0
    ELSE (Shr(bytes[(offset \div 8) + 1], offset % 8) % 2)
         + 2 * extract_bits(bytes, offset + 1, bits - 1)

\* Format.array_from; uninit is what np.empty left in the slots never
\* written.  With stride PIXEL the channel at position i (from 1) is written
\* to out[i::num_channels]: the last channel's slice starts at num_channels
\* and is one short, and slot 0 of each pixel is never written.
Format_array_from(fmt, raw_pixels, uninit) ==
    LET num_channels == Len(fmt.channels)
        bpp == SumSeq([i \in DOMAIN fmt.channels |-> fmt.channels[i].bits])
        num_pixels == (Len(raw_pixels) * 8) \div bpp
        width == fmt.dtype \div 8
        size == Len(raw_pixels) \div width
        word(p) == SubSeq(raw_pixels, (p - 1) * width + 1, p * width)
        max_bits == CHOOSE b \in {fmt.channels[i].bits : i \in DOMAIN fmt.channels} :
                        \A i \in DOMAIN fmt.channels : b >= fmt.channels[i].bits
        mask_bits == IF max_bits <= 8 THEN 8 ELSE IF max_bits <= 16 THEN 16 ELSE 32
        offset(i) == SumSeq([j \in 1..(num_channels - i) |->
                                fmt.channels[i + j].bits])
        c(i, p) == LET v == extract_bits(word(p), offset(i), fmt.channels[i].bits)
                   IN  IF fmt.channels[i].bits \in {8, 16, 32} THEN v
                       ELSE BitOr(v, v * Pow2(max_bits - fmt.channels[i].bits))
                            % Pow2(mask_bits)
        \* the slots of out[i::num_channels], from 0
        slots(i) == {k \in 0..(num_pixels * num_channels - 1) :
                        k >= i /\ (k - i) % num_channels = 0}
        flat == [k \in 0..(num_pixels * num_channels - 1) |->
                    IF \E i \in 1..num_channels : k \in slots(i)
                    THEN LET at == CHOOSE i \in 1..num_channels : k \in slots(i)
                         IN  c(at, IF num_pixels = 1 THEN 1
                                   ELSE ((k - at) \div num_channels) + 1)
                    ELSE uninit]
    IN  IF Len(raw_pixels) % width # 0 THEN Raise("ValueError")
        ELSE IF fmt.stride = "CHANNEL"
        THEN IF size # num_pixels * num_channels THEN Raise("ValueError")
             ELSE [kind |-> "ok",
                   value |-> [p \in 1..num_pixels |-> [k \in 1..num_channels |->
                       extract_bits(SubSeq(raw_pixels,
                                           ((p - 1) * num_channels + k - 1) * width + 1,
                                           ((p - 1) * num_channels + k) * width),
                                    0, fmt.dtype)]]]
        ELSE IF size # num_pixels THEN Raise("AssertionError")
        ELSE IF \E i \in 1..num_channels :
                    Cardinality(slots(i)) # num_pixels /\ num_pixels # 1
        THEN Raise("ValueError")
        ELSE [kind |-> "ok",
              value |-> [p \in 1..num_pixels |-> [k \in 1..num_channels |->
                            flat[(p - 1) * num_channels + k - 1]]]]

\* the channel list of Format(**channels), from the names and the bits
Channels(names, bits) == [i \in DOMAIN names |-> Channel(names[i], bits[i])]

\* raw byte strings of whole pixels: up to MaxPixels pixels, bytes running
\* from a start value
MaxPixels == 2
MaxRawStart == 3
RawStep == 37

array_from_calls ==
    {[fn |-> "Format.array_from", channels |-> cs,
      raw |-> [k \in 1..((n * SumSeq([i \in DOMAIN cs |-> cs[i].bits])) \div 8) |->
                  (250 + start + RawStep * k) % 256]] :
        cs \in {Channels(<<"red", "green", "blue">>, <<8, 8, 8>>),
                Channels(<<"blue", "green", "red">>, <<8, 8, 8>>),
                Channels(<<"red", "green", "blue", "alpha">>, <<8, 8, 8, 8>>),
                Channels(<<"red", "green", "blue">>, <<5, 6, 5>>),
                Channels(<<"luminance">>, <<8>>),
                Channels(<<"red", "green", "blue">>, <<16, 16, 16>>),
                Channels(<<"red", "green", "blue">>, <<4, 4, 4>>),
                Channels(<<"red", "green">>, <<3, 2>>)},
        n \in 0..MaxPixels, start \in 0..MaxRawStart}

\* what np.empty may have left in a slot
UninitValues == {0, 255}

\* Format(**channels).array_from(raw)
Call_array_from ==
    /\ pc = "start" /\ call.fn = "Format.array_from"
    /\ \E uninit \in UninitValues :
         ret' = LET fmt == Format(call.channels)
                IN  IF IsError(fmt) THEN fmt
                    ELSE Format_array_from(fmt, call.raw, uninit)
    /\ pc' = "returned"
    /\ UNCHANGED <<file, enumsStrict, tex, out, tex2, kids, heap, call>>

\* ---- C19 ---------------------------------------------------------------
\* C19: for every Format parser_for accepts (per-channel stride, and
\* per-pixel stride with 8, 16 or 32 bits per pixel) and every raw byte
\* string of n whole pixels, array_from returns an n-row array with one
\* column per channel in declared order, row p column c the value of channel
\* c of pixel p: the c-th element of the pixel for the per-channel stride, the
\* channel's bit field of the pixel's integer for the per-pixel stride.
C19_ArrayFrom ==
    (/\ pc = "returned" /\ call.fn = "Format.array_from"
     /\ ~IsError(parser_for(call.channels)))
    => LET cs == call.channels
           nc == Len(cs)
           bpp == SumSeq([i \in DOMAIN cs |-> cs[i].bits])
           n == (Len(call.raw) * 8) \div bpp
           pixel(p) == SubSeq(call.raw, ((p - 1) * bpp) \div 8 + 1, (p * bpp) \div 8)
           after(c) == SumSeq([j \in 1..(nc - c) |-> cs[c + j].bits])
       IN  /\ ret.kind = "ok"
           /\ Len(ret.value) = n
           /\ \A p \in 1..n :
                /\ Len(ret.value[p]) = nc
                /\ \A c \in 1..nc :
                     ret.value[p][c] =
                        IF parser_for(cs).stride = "CHANNEL"
                        THEN extract_bits(pixel(p), (c - 1) * cs[c].bits, cs[c].bits)
                        ELSE extract_bits(pixel(p), after(c), cs[c].bits)

\* variant of shuffle: column j is taken at the place the source's j-th
\* channel has in the target
Format_shuffle_inverse(self, pixels, new) ==
    IF self.dtype # new.dtype \/ self.stride # new.stride
       \/ {<<c.name, c.bits, c.char>> : c \in Range(self.channels)}
            # {<<c.name, c.bits, c.char>> : c \in Range(new.channels)}
    THEN Raise("AssertionError")
    ELSE [kind |-> "ok",
          value |-> [p \in DOMAIN pixels |-> [j \in DOMAIN new.channels |->
                        pixels[p][channels_index(new.channels, self.channels[j])]]]]

\* Format.shuffle: the rows of the transposed array picked in the order of
\* new.channels, transposed back
Format_shuffle(self, pixels, new) ==
    IF self.dtype # new.dtype \/ self.stride # new.stride
       \/ {<<c.name, c.bits, c.char>> : c \in Range(self.channels)}
            # {<<c.name, c.bits, c.char>> : c \in Range(new.channels)}
    THEN Raise("AssertionError")
    ELSE [kind |-> "ok",
          value |-> [p \in DOMAIN pixels |-> [j \in DOMAIN new.channels |->
                        pixels[p][channels_index(self.channels, new.channels[j])]]]]

\* shuffles between the orders of red, green, blue (and to a format with
\* another channel set), of arrays array_from gave
shuffle_calls ==
    LET Orders == {<<"red", "green", "blue">>, <<"blue", "green", "red">>,
                   <<"green", "blue", "red">>, <<"blue", "red", "green">>}
        Targets == {Channels(o, <<8, 8, 8>>) : o \in Orders}
                   \cup {Channels(<<"red", "green", "alpha">>, <<8, 8, 8>>)}
    IN  {[fn |-> "Format.shuffle",
          self |-> Format(Channels(o, <<8, 8, 8>>)),
          new |-> Format(t),
          pixels |-> [p \in 1..n |-> [c \in 1..3 |->
                         (250 + start + RawStep * (3 * (p - 1) + c)) % 256]]] :
            o \in Orders, t \in Targets,
            n \in 0..MaxPixels, start \in 0..MaxRawStart}

\* self.shuffle(pixels, new); pixels is the caller's array, as it is after
\* the call: shuffle writes to none of its elements
Call_shuffle ==
    /\ pc = "start" /\ call.fn = "Format.shuffle"
    /\ ret' = Format_shuffle(call.self, call.pixels, call.new)
    /\ pc' = "returned"
    /\ UNCHANGED <<file, enumsStrict, tex, out, tex2, kids, heap, call>>

\* new.shuffle(shuffled, self): the way back; the first result is kept in
\* ret.value
Call_shuffle_back ==
    /\ pc = "returned" /\ call.fn = "Format.shuffle" /\ ret.kind = "ok"
    /\ ret' = [kind |-> "ok", value |-> ret.value,
               back |-> Format_shuffle(call.new, ret.value, call.self)]
    /\ pc' = "shuffled_back"
    /\ UNCHANGED <<file, enumsStrict, tex, out, tex2, kids, heap, call>>

\* ---- C20 ---------------------------------------------------------------
\* C20: for two Formats with the same channel set in different orders and
\* any n-pixel array in the source format, source.shuffle(pixels, target)
\* returns an n-row array whose column j holds the source column of the
\* channel that is j-th in the target; the input array is not modified; and
\* shuffling to the target and back returns the original array.
C20_Shuffle ==
    (/\ pc \in {"returned", "shuffled_back"} /\ call.fn = "Format.shuffle"
     /\ Range(call.self.channels) = Range(call.new.channels))
    => /\ ret.kind = "ok"
       /\ Len(ret.value) = Len(call.pixels)
       /\ \A p \in DOMAIN call.pixels :
            /\ Len(ret.value[p]) = Len(call.new.channels)
            /\ \A j \in DOMAIN call.new.channels :
                 \A k \in DOMAIN call.self.channels :
                    call.self.channels[k] = call.new.channels[j]
                    => ret.value[p][j] = call.pixels[p][k]
       /\ pc = "shuffled_back" =>
            /\ ret.back.kind = "ok"
            /\ ret.back.value = call.pixels

\* RGB shuffled to GBR and back, two pixels
C20_Witness ==
    /\ pc = "shuffled_back" /\ call.fn = "Format.shuffle"
    /\ call.self.channels = Channels(<<"red", "green", "blue">>, <<8, 8, 8>>)
    /\ call.new.channels = Channels(<<"green", "blue", "red">>, <<8, 8, 8>>)
    /\ Len(call.pixels) = 2
    /\ ret.value[1] = << call.pixels[1][2], call.pixels[1][3], call.pixels[1][1] >>
    /\ ret.back.value = call.pixels

\* the 16-bit pixels drawn: every red, a few greens and blues
rgb565_as_rgb888_calls ==
    {[fn |-> "rgb565_as_rgb888", pixel |-> r * 2048 + g * 32 + b] :
        r \in 0..31, g \in 0..(MaxGreen + 2), b \in 0..(MaxBlue + 2)}

Call_rgb565_as_rgb888 ==
    /\ pc = "start" /\ call.fn = "rgb565_as_rgb888"
    /\ ret' = [kind |-> "ok", value |-> rgb565_as_rgb888(call.pixel)]
    /\ pc' = "returned"
    /\ UNCHANGED <<file, enumsStrict, tex, out, tex2, kids, heap, call>>

\* ---- C24 ---------------------------------------------------------------
\* C24: for every 16-bit p with r5 = (p >> 11) & 31, g6 = (p >> 5) & 63,
\* b5 = p & 31, rgb565_as_rgb888(p) returns ((r5 << 3) | (r5 >> 2),
\* (g6 << 2) | (g6 >> 4), (b5 << 3) | (b5 >> 2)): bit replication.
C24_BitReplication ==
    (pc = "returned" /\ call.fn = "rgb565_as_rgb888")
    => LET r5 == Shr(call.pixel, 11) % 32
           g6 == Shr(call.pixel, 5) % 64
           b5 == call.pixel % 32
       IN  ret.value = << BitOr(r5 * 8, Shr(r5, 2)),
                          BitOr(g6 * 4, Shr(g6, 4)),
                          BitOr(b5 * 8, Shr(b5, 2)) >>

\* ---- DXT3 / DXT5 and the assembled mip ----------------------------------
\* variant of the alpha plane: the nibble moved up, never replicated
DXT3_alpha_block_shift_only(block) ==
    LET alpha == [i \in 1..16 |->
                     IF (i - 1) % 2 = 0 THEN Shr(block[(i - 1) \div 2 + 1], 4)
                     ELSE BitAnd(block[(i - 1) \div 2 + 1], 15)]
    IN  [r \in 1..4 |-> [c \in 1..4 |->
            << (alpha[4 * (r - 1) + c] * 16) % 256 >>]]

\* DXT3_alpha_block: 16 nibbles, high before low in each byte, each or-ed
\* with itself shifted left by 4 (uint8), reshaped (4, 4, 1)
DXT3_alpha_block(block) ==
    LET alpha == [i \in 1..16 |->
                     IF (i - 1) % 2 = 0 THEN Shr(block[(i - 1) \div 2 + 1], 4)
                     ELSE BitAnd(block[(i - 1) \div 2 + 1], 15)]
    IN  [r \in 1..4 |-> [c \in 1..4 |->
            << BitOr(alpha[4 * (r - 1) + c],
                     (alpha[4 * (r - 1) + c] * 16) % 256) >>]]

\* DXT3(texture, mip_index=None); a mip is held as its sequence of 16-byte
\* blocks; rgb and alpha tiles joined along axis 2
DXT3(texture, mip_index) ==
    IF mip_index = None THEN Raise("AttributeError")
    ELSE IF mip_index[1] \notin DOMAIN texture.mipmaps THEN Raise("KeyError")
    ELSE LET pixel_data == texture.mipmaps[mip_index[1]]
             a_tiles == [n \in 1..Len(pixel_data) |->
                            DXT3_alpha_block(SubSeq(pixel_data[n], 1, 8))]
             rgb_tiles == [n \in 1..Len(pixel_data) |->
                              DXT1_block_fast(SubSeq(pixel_data[n], 9, 16))]
             tiles == [n \in 1..Len(pixel_data) |->
                          [i \in 1..4 |-> [j \in 1..4 |->
                              rgb_tiles[n][i][j] \o a_tiles[n][i][j]]]]
             size == mip_size(texture.max_size, mip_index[1])
         IN  concatenate(tiles, size[1], size[2])

\* DXT5(texture, mip_index=None)
DXT5(texture, mip_index) ==
    IF mip_index = None THEN Raise("AttributeError")
    ELSE IF mip_index[1] \notin DOMAIN texture.mipmaps THEN Raise("KeyError")
    ELSE LET pixel_data == texture.mipmaps[mip_index[1]]
             a_tiles == [n \in 1..Len(pixel_data) |->
                            DXT5_alpha_block(SubSeq(pixel_data[n], 1, 8))]
             rgb_tiles == [n \in 1..Len(pixel_data) |->
                              DXT1_block_fast(SubSeq(pixel_data[n], 9, 16))]
             tiles == [n \in 1..Len(pixel_data) |->
                          [i \in 1..4 |-> [j \in 1..4 |->
                              rgb_tiles[n][i][j] \o a_tiles[n][i][j]]]]
             size == mip_size(texture.max_size, mip_index[1])
         IN  concatenate(tiles, size[1], size[2])

\* bounds of the mips decoded: tiles in a mip, mip levels, block contents
MaxTiles == 4
MaxLevel == 1
MaxTileSeed == 3

\* the bytes of tile n of a mip: different in every tile and at every offset
TileBytes(n, len, seed) ==
    [k \in 1..len |-> (53 * n + 29 * k + 83 * seed + 7 * k * seed) % 256]

\* textures with one stored mip of the given true size at the given level,
\* its data holding exactly the tiles that cover it
TiledCalls(fn, len) ==
    {[fn |-> fn, size |-> <<w, h>>,
      block |-> TileBytes(1, len, seed),
      texture |-> [max_size |-> <<w * Pow2(k), h * Pow2(k)>>,
                   mipmaps |-> [m \in {MipIndex(k, 0, None)} |->
                       [n \in 1..(CeilFrac(w, 1, 4) * CeilFrac(h, 1, 4)) |->
                           TileBytes(n, len, seed)]]],
      mip_index |-> Some(MipIndex(k, 0, None)), fast |-> TRUE] :
        w \in {s \in 2..8 : s % 2 = 0}, h \in {s \in 2..8 : s % 2 = 0},
        k \in 0..MaxLevel, seed \in 0..MaxTileSeed}

DXTn_calls ==
    LET given == {c \in TiledCalls("DXT1", 8) \cup TiledCalls("DXT3", 16)
                        \cup TiledCalls("DXT5", 16) :
                     Len(c.texture.mipmaps[c.mip_index[1]]) <= MaxTiles}
    IN  given \cup {[c EXCEPT !.mip_index = None] :
                       c \in {g \in given : g.fn # "DXT1"}}

Call_DXT3 ==
    /\ pc = "start" /\ call.fn = "DXT3"
    /\ ret' = DXT3(call.texture, call.mip_index)
    /\ pc' = "returned"
    /\ UNCHANGED <<file, enumsStrict, tex, out, tex2, kids, heap, call>>

Call_DXT5 ==
    /\ pc = "start" /\ call.fn = "DXT5"
    /\ ret' = DXT5(call.texture, call.mip_index)
    /\ pc' = "returned"
    /\ UNCHANGED <<file, enumsStrict, tex, out, tex2, kids, heap, call>>

\* ---- C25 ---------------------------------------------------------------
\* the 4-colour blend palette of the colour half of a block
BlendPalette(colour) ==
    LET c0 == rgb565_as_rgb888(unpack_2H(colour)[1])
        c1 == rgb565_as_rgb888(unpack_2H(colour)[2])
    IN  << c0, c1,
           [k \in 1..3 |-> (c0[k] * 2) \div 3 + c1[k] \div 3],
           [k \in 1..3 |-> c0[k] \div 3 + (c1[k] * 2) \div 3] >>

\* the part of a decoded mip that tile n of the mip data fills, as a 4x4 tile
TileOf(array, n, width) ==
    LET num_cols == CeilFrac(width, 1, 4)
    IN  [i \in 1..4 |-> [j \in 1..4 |->
            array[((n - 1) % num_cols) * 4 + i]
                 [((n - 1) \div num_cols) * 4 + j]]]

\* C25: DXT3 called with a mip index decodes every 16-byte block to a tile of
\* 4-channel texels in which each nibble value n of the first 8 bytes appears
\* as the alpha (n << 4) | n as often as it is stored, and the colour of every
\* texel is the entry of the 4-colour blend palette its 2-bit index selects,
\* whatever the order of c0 and c1.
C25_DXT3Tile ==
    (pc = "returned" /\ call.fn = "DXT3" /\ call.mip_index # None)
    => /\ ret.kind = "ok"
       /\ \A n \in 1..Len(call.texture.mipmaps[call.mip_index[1]]) :
            LET blk == call.texture.mipmaps[call.mip_index[1]][n]
                tile == TileOf(ret.value, n, call.size[1])
                nibble == [i \in 0..15 |->
                              IF i % 2 = 0 THEN blk[i \div 2 + 1] \div 16
                              ELSE blk[i \div 2 + 1] % 16]
            IN  /\ \A v \in 0..15 :
                     Cardinality({i \in 0..15 : nibble[i] = v})
                     = Cardinality({p \in (1..4) \X (1..4) :
                                       tile[p[1]][p[2]][4] = v * 16 + v})
                /\ \A i \in 1..4, j \in 1..4 :
                     /\ Len(tile[i][j]) = 4
                     /\ SubSeq(tile[i][j], 1, 3)
                        = BlendPalette(SubSeq(blk, 9, 16))
                              [((blk[12 + j] \div Pow2(2 * (i - 1))) % 4) + 1]

\* a block with c0 <= c1 and differing nibbles has been decoded
C25_Witness ==
    /\ pc = "returned" /\ call.fn = "DXT3" /\ call.mip_index # None
    /\ ret.kind = "ok"
    /\ \E n \in 1..Len(call.texture.mipmaps[call.mip_index[1]]) :
         LET blk == call.texture.mipmaps[call.mip_index[1]][n]
         IN  /\ unpack_2H(SubSeq(blk, 9, 16))[1]
                <= unpack_2H(SubSeq(blk, 9, 16))[2]
             /\ blk[1] \div 16 # blk[1] % 16
             /\ TileOf(ret.value, n, call.size[1])[1][1][4]
                = (blk[1] \div 16) * 17

\* ---- C26 ---------------------------------------------------------------
\* C26: the array DXT1, DXT3 and DXT5 return for a mip has the mip's true
\* width and height, also when these are not multiples of 4.
C26_MipCropped ==
    (pc = "returned" /\ call.fn \in {"DXT1", "DXT3", "DXT5"}
        /\ "size" \in DOMAIN call /\ call.mip_index # None)
    => /\ ret.kind = "ok"
       /\ Len(ret.value) = call.size[1]
       /\ \A x \in 1..Len(ret.value) : Len(ret.value[x]) = call.size[2]

\* ---- C28 ---------------------------------------------------------------
\* C28: in every tile DXT3 returns, the position holding the colour picked by
\* the 2-bit index of texel (x, y) holds the 4-bit alpha of texel (x, y),
\* texel (x, y) being entry 4y + x of both planes.
C28_AlphaAligned ==
    (pc = "returned" /\ call.fn = "DXT3" /\ call.mip_index # None
        /\ ret.kind = "ok")
    => \A n \in 1..Len(call.texture.mipmaps[call.mip_index[1]]) :
         LET blk == call.texture.mipmaps[call.mip_index[1]][n]
             tile == TileOf(ret.value, n, call.size[1])
             nibble == [i \in 0..15 |->
                           IF i % 2 = 0 THEN blk[i \div 2 + 1] \div 16
                           ELSE blk[i \div 2 + 1] % 16]
         IN  \A x \in 0..3, y \in 0..3 :
                 tile[x + 1][y + 1][4] = nibble[4 * y + x] * 17

(***************************************************************************)
(* materials/vmt.py                                                        *)
(***************************************************************************)
\* A str is held as the sequence of its characters; a run of characters that
\* holds no quote, whitespace, slash or upper-case letter ("$basetexture")
\* is held as one element.

\* texture_parameters
texture_parameters ==
    [k \in {"$basetexture", "$basetexture2", "$blendmodulatetexture",
            "$bumpmap", "$bumpmap2", "$envmap", "$envmapmask", "$detail",
            "$lightmap", "$lightwarptexture", "$phongexponenttexture",
            "$specmap_texture", "$texture2", "%tooltexture"} |->
        CASE k = "$basetexture" -> "colour"
          [] k = "$basetexture2" -> "colour2"
          [] k = "$blendmodulatetexture" -> "blend_modulate"
          [] k = "$bumpmap" -> "normal"
          [] k = "$bumpmap2" -> "normal2"
          [] k = "$envmap" -> "cubemap"
          [] k = "$envmapmask" -> "specular"
          [] k = "$detail" -> "detail"
          [] k = "$lightmap" -> "lightmap"
          [] k = "$lightwarptexture" -> "light_warp"
          [] k = "$phongexponenttexture" -> "phong_exponent"
          [] k = "$specmap_texture" -> "specular_pbr"
          [] k = "$texture2" -> "multiply"
          [] k = "%tooltexture" -> "editor"]

\* the quotes of name_patterns and parameter_patterns, in list order; <<>> is
\* the unquoted form
pattern_quotes == << <<"'">>, <<"\"">>, <<>> >>

\* re \s
IsSpace(c) == c \in {" ", "\t"}

\* pattern.match(line) of f"{a}(.+){a}": the end of the group, None without
\* a match; the group is greedy
name_match(line, a) ==
    LET ends == IF a = <<>> THEN {Len(line)} \ {0}
                ELSE {e \in 2..(Len(line) - 1) :
                         line[1] = a[1] /\ line[e + 1] = a[1]}
    IN  IF ends = {} THEN None
        ELSE Some(SubSeq(line, Len(a) + 1,
                         CHOOSE e \in ends : \A o \in ends : o <= e))

\* name_of
name_of(line) ==
    LET hits == {k \in 1..3 : name_match(line, pattern_quotes[k]) # None}
    IN  IF hits = {} THEN None
        ELSE name_match(line,
                 pattern_quotes[CHOOSE k \in hits : \A o \in hits : k <= o])

\* pattern.match(line) of f"{a}(.+){a}\\s+{b}(.+){b}": the groups of the
\* match the backtracking finds first (each of group 1, the whitespace and
\* group 2 as long as it can be, in that order), None without a match
parameter_match(line, a, b) ==
    LET n == Len(line)
        SetMax(S) == CHOOSE e \in S : \A o \in S : o <= e
        \* ends of group 2 after whitespace ending at q
        ends2(q) == {e \in (q + Len(b) + 1)..(n - Len(b)) :
                        b # <<>> => line[e + 1] = b[1]}
        \* ends of the whitespace after group 1 ending at e
        endsw(e) == {q \in (e + Len(a) + 1)..(n - 1 - Len(b)) :
                        /\ \A p \in (e + Len(a) + 1)..q : IsSpace(line[p])
                        /\ b # <<>> => line[q + 1] = b[1]
                        /\ ends2(q) # {}}
        ends1 == {e \in (Len(a) + 1)..(n - 1 - Len(a)) :
                     /\ a # <<>> => line[1] = a[1] /\ line[e + 1] = a[1]
                     /\ endsw(e) # {}}
    IN  IF ends1 = {} THEN None
        ELSE LET e1 == SetMax(ends1)
                 q == SetMax(endsw(e1))
             IN  Some(<< SubSeq(line, Len(a) + 1, e1),
                         SubSeq(line, q + Len(b) + 1, SetMax(ends2(q))) >>)

\* parameter_of
parameter_of(line) ==
    LET pattern(k) == parameter_match(line, pattern_quotes[(k - 1) \div 3 + 1],
                                      pattern_quotes[((k - 1) % 3) + 1])
        hits == {k \in 1..9 : pattern(k) # None}
    IN  IF hits = {} THEN None
        ELSE pattern(CHOOSE k \in hits : \A o \in hits : k <= o)

\* line.partition("//")[0].strip()
strip_comment(line) ==
    LET marks == {i \in 1..(Len(line) - 1) : line[i] = "/" /\ line[i + 1] = "/"}
        code == IF marks = {} THEN line
                ELSE SubSeq(line, 1, (CHOOSE i \in marks :
                                         \A o \in marks : i <= o) - 1)
        keep == {i \in DOMAIN code : ~IsSpace(code[i]) /\ code[i] # "\n"}
    IN  IF keep = {} THEN <<>>
        ELSE SubSeq(code, CHOOSE i \in keep : \A o \in keep : i <= o,
                    CHOOSE i \in keep : \A o \in keep : o <= i)

\* Node.from_lines: `i` lines have been read into `out`
RECURSIVE Node_from_lines_loop(_, _, _, _)
Node_from_lines_loop(lines, i, node, prev_line) ==
    IF i >= Len(lines) THEN node
    ELSE
    LET line == strip_comment(lines[i + 1])
        parameter == parameter_of(line)
        name == name_of(line)
    IN  IF line = <<"{">>
        THEN IF node.name = None
             THEN Node_from_lines_loop(lines, i + 1,
                      [node EXCEPT !.name = prev_line], prev_line)
             ELSE LET child == Node_from_lines_loop(
                                   SubSeq(lines, i + 2, Len(lines)), 0,
                                   [name |-> prev_line, parameters |-> EmptyDict,
                                    children |-> <<>>, line_length |-> 0],
                                   prev_line)
                  IN  Node_from_lines_loop(lines, i + 1 + child.line_length,
                          [node EXCEPT !.children = Append(@, child)],
                          prev_line)
        ELSE IF line = <<"}">> THEN [node EXCEPT !.line_length = i + 1]
        ELSE IF parameter # None
        THEN Node_from_lines_loop(lines, i + 1,
                 [node EXCEPT !.parameters =
                     [k \in DOMAIN @ \cup {parameter[1][1]} |->
                         IF k = parameter[1][1] THEN parameter[1][2]
                         ELSE @[k]]],
                 prev_line)
        ELSE IF name # None
        THEN Node_from_lines_loop(lines, i + 1, node, name)
        ELSE Node_from_lines_loop(lines, i + 1, node, Some(line))

\* Node.from_lines(lines) of the root node
Node_from_lines(lines) ==
    Node_from_lines_loop(lines, 0,
        [name |-> None, parameters |-> EmptyDict, children |-> <<>>,
         line_length |-> 0], None)

\* str.lower() and str.replace("\\", "/") of a texture path
path_lower(path) ==
    [i \in DOMAIN path |-> CASE path[i] = "D" -> "d"
                             [] path[i] = "X" -> "x"
                             [] OTHER -> path[i]]
path_replace(path) ==
    [i \in DOMAIN path |-> IF path[i] = "\\" THEN "/" ELSE path[i]]

\* Vmt.parse: the root node, the shader and the textures it leaves
Vmt_parse(lines) ==
    LET raw == Node_from_lines(lines)
        found == {p \in DOMAIN texture_parameters :
                     <<p>> \in DOMAIN raw.parameters}
    IN  [kind |-> "ok",
         value |-> [raw |-> raw, shader |-> raw.name,
                    textures |->
                       [role \in {texture_parameters[p] : p \in found} |->
                           path_replace(path_lower(raw.parameters[
                               << CHOOSE p \in found :
                                      texture_parameters[p] = role >>]))]]]

\* whitespace between a key and its value: 1..MaxSep characters
MaxSep == 2

\* the text of one parameter line: indent, key, whitespace, value, each of
\* key and value in the quotes given (<<>> for none), then a comment or not
ParameterLine(p) ==
    <<"\t">> \o p.kq \o <<p.key>> \o p.kq \o p.sep \o p.vq \o p.value \o p.vq
    \o (IF p.comment THEN <<" ", "/", "/", " ", "c">> ELSE <<>>) \o <<"\n">>

\* the parameter lines drawn
Parameters(keys, quotes, seps, comments) ==
    {[key |-> k, value |-> v, kq |-> kq, vq |-> vq, sep |-> s, comment |-> c] :
        k \in keys, v \in {<<"D", "\\", "x">>, <<"d", "/", "y">>},
        kq \in quotes, vq \in quotes, s \in seps, c \in comments}

\* well-formed texts: the shader name, the top-level block holding one
\* parameter, then a child block with one parameter or none, then one more
\* parameter or none
Vmt_calls ==
    {[fn |-> "Vmt.parse", shader |-> <<"UnlitTwoTexture">>,
      top |-> <<p1>> \o p3, child |-> p2,
      lines |->
         << sq \o <<"UnlitTwoTexture">> \o sq \o <<"\n">>, <<"{", "\n">>,
            ParameterLine(p1) >>
         \o (IF p2 = <<>> THEN <<>>
             ELSE << <<"\t", "Proxies", "\n">>, <<"\t", "{", "\n">>,
                     <<"\t">> \o ParameterLine(p2[1]),
                     <<"\t", "}", "\n">> >>)
         \o [i \in DOMAIN p3 |-> ParameterLine(p3[i])]
         \o << <<"}", "\n">> >>] :
        sq \in {<<>>, <<"\"">>},
        p1 \in Parameters({"$basetexture", "$surfaceprop"}, {<<>>, <<"\"">>},
                  {[i \in 1..n |-> " "] : n \in 1..MaxSep}
                      \cup {[i \in 1..n |-> "\t"] : n \in 1..MaxSep},
                  BOOLEAN),
        p2 \in {<<>>, <<[key |-> "$texture2", value |-> <<"D", "\\", "x">>,
                         kq |-> <<"\"">>, vq |-> <<"\"">>, sep |-> <<" ">>,
                         comment |-> FALSE]>>},
        p3 \in {<<>>} \cup {<<[key |-> k, value |-> <<"d", "/", "y">>,
                                kq |-> <<"\"">>, vq |-> <<>>, sep |-> <<"\t">>,
                                comment |-> FALSE]>> :
                                k \in {"$texture2", "$basetexture"}}}

Call_Vmt_parse ==
    /\ pc = "start" /\ call.fn = "Vmt.parse"
    /\ ret' = Vmt_parse(call.lines)
    /\ pc' = "returned"
    /\ UNCHANGED <<file, enumsStrict, tex, out, tex2, kids, heap, call>>

\* ---- C21 ---------------------------------------------------------------
\* the value of the last of the given parameters that has the key
LastValue(params, key) ==
    params[CHOOSE i \in DOMAIN params :
              /\ params[i].key = key
              /\ \A j \in DOMAIN params : params[j].key = key => j <= i].value

\* C21: for a well-formed text Vmt.parse sets shader to the name before the
\* first opening brace and textures[role] for exactly the known texture
\* parameters of the top-level block, the path lower-cased with forward
\* slashes; the parameter of a child block is held by the child node and not
\* by the top level, and the parameter after the child's closing brace is
\* read into the top level.
C21_VmtParse ==
    (pc = "returned" /\ call.fn = "Vmt.parse")
    => LET known == {call.top[i].key : i \in DOMAIN call.top}
                        \cap DOMAIN texture_parameters
           raw == ret.value.raw
       IN  /\ ret.kind = "ok"
           /\ ret.value.shader = Some(call.shader)
           /\ DOMAIN ret.value.textures = {texture_parameters[k] : k \in known}
           /\ \A k \in known :
                ret.value.textures[texture_parameters[k]]
                = path_replace(path_lower(LastValue(call.top, k)))
           /\ Len(raw.children) = Len(call.child)
           /\ \A i \in DOMAIN call.child :
                /\ <<call.child[i].key>> \in DOMAIN raw.children[i].parameters
                /\ call.child[i].key \notin known
                     => <<call.child[i].key>> \notin DOMAIN raw.parameters
           /\ \A i \in DOMAIN call.top :
                call.top[i].key \in known
                => <<call.top[i].key>> \in DOMAIN raw.parameters

(***************************************************************************)
(* the calls of the decoders and pixel formats                             *)
(***************************************************************************)
Calls == DXT1_block_calls \cup DXT1_calls \cup DXT5_alpha_block_calls
         \cup detwiddle_lut_calls \cup MipIndex_calls
         \cup array_from_calls \cup shuffle_calls
         \cup Vmt_calls
         \cup DXTn_calls
         \cup rgb565_as_rgb888_calls

InitFn ==
    /\ call \in Calls
    /\ ret = Nothing
    /\ pc = "start"
    /\ file = Nothing
    /\ enumsStrict = TRUE
    /\ tex = Nothing
    /\ out = Nothing
    /\ tex2 = Nothing
    /\ kids = <<>>
    /\ heap = <<>>

NextFn ==
    \/ Call_DXT1_block
    \/ Call_DXT1
    \/ Call_DXT5_alpha_block
    \/ Call_detwiddle_lut
    \/ Call_MipIndex_eq
    \/ Call_array_from
    \/ Call_shuffle
    \/ Call_shuffle_back
    \/ Call_rgb565_as_rgb888
    \/ Call_DXT3
    \/ Call_DXT5
    \/ Call_Vmt_parse

SpecFn == InitFn /\ [][NextFn]_vars

====
